---- MODULE Spec2Model ----
(***************************************************************************)
(* Event-driven backtesting core of quant-store.                           *)
(*                                                                         *)
(* Three wirings of the repository are modelled, each as a specification   *)
(* of its own over one set of variables:                                   *)
(*                                                                         *)
(*   SpecBus     src/trader-v2: EventBus.run as an asyncio task,           *)
(*               MockDataFeed, a strategy, MomentumPortfolio and           *)
(*               SimulatedExecutionHandler (src/trader-v2/sample.py).      *)
(*   SpecBroker  src/trader_v2: the same EventBus, a data feed that yields *)
(*               with asyncio.sleep(0), a strategy and MomentumBroker.     *)
(*   SpecEngine  src/trader: the asyncio EventEngine, CSVDataSource and    *)
(*               the component graph of run_backtest.                      *)
(*                                                                         *)
(* asyncio is modelled by its FIFO ready queue: a task runs from one       *)
(* suspension point to the next as one action, and everything a task       *)
(* wakes or creates is appended to the ready queue (loop.call_soon).       *)
(*                                                                         *)
(* Money is kept as an integer number of 1/MoneyScale currency units, so   *)
(* that the slippage and commission rates of the source are exact; the     *)
(* floats of the source are modelled as exact rationals.                   *)
(***************************************************************************)
EXTENDS Integers, Sequences, FiniteSets, TLC

VARIABLES
    ready,        \* asyncio loop: FIFO of runnable tasks
    queue,        \* EventBus._queue / EventEngine._queue: FIFO of events
    unfinished,   \* asyncio.Queue._unfinished_tasks
    getterWaits,  \* the run loop is suspended in `await self._queue.get()`
    joinWaiters,  \* tasks suspended in `await self._queue.join()`
    feed,         \* the data feed / data source task
    exec,         \* SimulatedExecutionHandler (trader-v2)
    pf,           \* MomentumPortfolio (trader-v2)
    broker,       \* MomentumBroker (trader_v2)
    engine,       \* EventEngine (trader/base)
    nextId,       \* next fresh event / order id (uuid4 in the source)
    log           \* history: bars published, orders accepted, fills published
                  \* and applied; the settlements of the broker's last pass

vars == <<ready, queue, unfinished, getterWaits, joinWaiters, feed, exec, pf,
          broker, engine, nextId, log>>

----------------------------------------------------------------------------
(* Bounds of the model *)

MaxBars == 3          \* market data points MockDataFeed replays
BrokerBars == 7       \* market events the feed of the broker wiring publishes
EngineBars == 3       \* rows CSVDataSource reads
MaxPrice == 3         \* the highest price of a bar
InitialCash == 10     \* initial_cash, in currency units
LotSize == 1          \* lot_size
SignalBars == 4       \* market events of the short run of the broker wiring
ExecBars == 4         \* market events published to the execution handler alone
ExecOrders == 2       \* orders published to the execution handler alone
RegEvents == 2        \* events put on an engine with registered handlers
RegHandlers == 2      \* handlers registered for the event type
StopEvents == 3       \* events published to a bus that is stopped or cancelled
LiveBars == 4         \* data points of LiveDataFeed._mock_realtime_data
ThreadEvents == 3     \* events put on the threaded engine that is stopped
ReplayBars == 4       \* market events of a run that is replayed
SignalQty == 3        \* largest position, long or short, on_signal is called with
MomentumPeriod == 2   \* momentum_period of MomentumStrategy
MomentumRows == 6     \* rows of the CSV file the strategy is run on
RunBars == 3          \* market events the data stream of Backtester.run yields
WideLot == 2          \* lot_size of the runs that check lot multiples

Symbols == {"A", "B"}
BrokerSymbols == {"A"}              \* symbols traded in the broker wiring

(* Rates of the source, as integers *)
DEFAULT_COMMISSION_RATE_E4 == 5     \* DEFAULT_COMMISSION_RATE = 0.0005
DEFAULT_SLIPPAGE_PERCENT_E3 == 1    \* DEFAULT_SLIPPAGE_PERCENT = 0.001
EXEC_COMMISSION_E3 == 1             \* sample.py: commission_percent=0.001
EXEC_SLIPPAGE_E4 == 5               \* sample.py: slippage_percent=0.0005

E3 == 10 * 100
E4 == 100 * 100
MoneyScale == E3 * E4

(* Signal weights are the rationals n / WeightDen. *)
WeightDen == 1 + 1
Weights == {1}
WideWeights == {1, 1 + 1}           \* the short run also has weight 1.0

TopSymbols == 3       \* sorted_momentum[:3]

NoTs == 0 - 1         \* Optional[datetime] = None
NoPrice == 0 - 1      \* a key absent from the data dict / a None price

----------------------------------------------------------------------------
(* Events (src/trader-v2/core/events.py).  `cause` is history: the index   *)
(* of the market data point whose handling produced the event, and `srcTs` *)
(* the timestamp of that data point.                                       *)

MarketEvent(sym, ts, open, close, n) ==
    [type |-> "MARKET", sym |-> sym, ts |-> ts, open |-> open, close |-> close,
     dir |-> "", w |-> 0, qty |-> 0, id |-> 0, price |-> 0, commission |-> 0,
     cause |-> n, srcTs |-> ts]

SignalEvent(sym, dir, w, n, srcTs) ==
    [type |-> "SIGNAL", sym |-> sym, ts |-> NoTs, open |-> NoPrice,
     close |-> NoPrice, dir |-> dir, w |-> w, qty |-> 0, id |-> 0, price |-> 0,
     commission |-> 0, cause |-> n, srcTs |-> srcTs]

OrderEvent(id, sym, dir, qty, n, srcTs) ==
    [type |-> "ORDER", sym |-> sym, ts |-> NoTs, open |-> NoPrice,
     close |-> NoPrice, dir |-> dir, w |-> 0, qty |-> qty, id |-> id,
     price |-> 0, commission |-> 0, cause |-> n, srcTs |-> srcTs]

FillEvent(order, price, commission, ts, n) ==
    [type |-> "FILL", sym |-> order.sym, ts |-> ts, open |-> NoPrice,
     close |-> NoPrice, dir |-> order.dir, w |-> 0, qty |-> order.qty,
     id |-> order.id, price |-> price, commission |-> commission,
     cause |-> n, srcTs |-> order.srcTs]

BacktestEndEvent(n) ==
    [type |-> "BACKTEST_END", sym |-> "", ts |-> NoTs, open |-> NoPrice,
     close |-> NoPrice, dir |-> "", w |-> 0, qty |-> 0, id |-> 0, price |-> 0,
     commission |-> 0, cause |-> n, srcTs |-> NoTs]

SystemEvent(n) ==
    [type |-> "SYSTEM", sym |-> "", ts |-> NoTs, open |-> NoPrice,
     close |-> NoPrice, dir |-> "", w |-> 0, qty |-> 0, id |-> 0, price |-> 0,
     commission |-> 0, cause |-> n, srcTs |-> NoTs]

PortfolioUpdateEvent(ts, n) ==
    [type |-> "PORTFOLIO_UPDATE", sym |-> "", ts |-> ts, open |-> NoPrice,
     close |-> NoPrice, dir |-> "", w |-> 0, qty |-> 0, id |-> 0, price |-> 0,
     commission |-> 0, cause |-> n, srcTs |-> NoTs]

NoEvent ==
    [type |-> "NONE", sym |-> "", ts |-> NoTs, open |-> NoPrice,
     close |-> NoPrice, dir |-> "", w |-> 0, qty |-> 0, id |-> 0, price |-> 0,
     commission |-> 0, cause |-> 0, srcTs |-> NoTs]

(* A runnable asyncio task: the run loop, the feed, or one handler call. *)
Task(t, h, ev) == [t |-> t, h |-> h, ev |-> ev]
BusTask == Task("bus", "", NoEvent)
FeedTask == Task("feed", "", NoEvent)

----------------------------------------------------------------------------
(* asyncio.Queue and EventBus *)

(* Queue.put_nowait, as EventBus.publish calls it: the item is appended,   *)
(* _unfinished_tasks is incremented and a waiting getter is woken.         *)
PutWakes(rdy, waits) == IF waits THEN Append(rdy, BusTask) ELSE rdy

PublishAllFront(q, evs) == evs \o q

RECURSIVE PublishAll(_, _)
PublishAll(q, evs) ==
    IF evs = <<>> THEN q ELSE PublishAll(Append(q, Head(evs)), Tail(evs))

(* EventBus._dispatch_event: one task per listener, in subscription order. *)
RECURSIVE HandlerTasks(_, _)
HandlerTasks(listeners, ev) ==
    IF listeners = <<>> THEN <<>>
    ELSE <<Task("handler", Head(listeners), ev)>>
             \o HandlerTasks(Tail(listeners), ev)

(* EventBus.run between two suspensions: while the queue is not empty      *)
(* `await self._queue.get()` returns at once, the event is dispatched and  *)
(* task_done() is called; the loop suspends when the queue is empty.       *)
RECURSIVE DispatchAll(_, _)
DispatchAll(q, L) ==
    IF q = <<>> THEN <<>>
    ELSE HandlerTasks(L[Head(q).type], Head(q)) \o DispatchAll(Tail(q), L)

(* Queue.task_done: when _unfinished_tasks reaches 0, _finished.set()      *)
(* wakes every task waiting in join().                                     *)
RECURSIVE WakeAll(_)
WakeAll(ws) ==
    IF ws = <<>> THEN <<>>
    ELSE <<Task(Head(ws), "", NoEvent)>> \o WakeAll(Tail(ws))

EventTypes == {"MARKET", "SIGNAL", "ORDER", "FILL", "BACKTEST_END"}

(* Rationals n/d with d > 0, kept in lowest terms (cost_basis is a float   *)
(* average in the source).                                                 *)
RECURSIVE Gcd(_, _)
Gcd(a, b) == IF b = 0 THEN a ELSE Gcd(b, a % b)

Abs(x) == IF x < 0 THEN 0 - x ELSE x

Rat(n, d) ==
    LET g == Gcd(Abs(n), d) IN
    IF n = 0 THEN [n |-> 0, d |-> 1] ELSE [n |-> n \div g, d |-> d \div g]

Max(a, b) == IF a >= b THEN a ELSE b

(* BaseBroker.__init__ / MomentumBroker.__init__ *)
BrInit ==
    [cash |-> InitialCash * MoneyScale,
     qty |-> [s \in Symbols |-> 0], cb |-> [s \in Symbols |-> Rat(0, 1)],
     pending |-> <<>>, lastTs |-> NoTs, navTs |-> NoTs, nav |-> <<>>,
     lot |-> LotSize]

(* EventEngine.__init__ with the components of src/trader registered: the *)
(* engine's mode, BacktestExecution._pending_orders, the portfolio         *)
(* manager's positions, and counts of the events put and fully handled.    *)
EngineInit(mode) ==
    [mode |-> mode, active |-> FALSE, pending |-> <<>>,
     position |-> [s \in Symbols |-> 0], put |-> 0, handled |-> 0,
     drains |-> 0, updates |-> FALSE]

----------------------------------------------------------------------------
(* trader-v2: MomentumPortfolio (src/trader-v2/components/portfolio.py)    *)

(* BasePortfolio.get_latest_price: the stored price, None unless > 0. *)
PfLatestPrice(p, sym) ==
    IF p.lastPrice[sym] > 0 THEN p.lastPrice[sym] ELSE NoPrice

(* BasePortfolio._estimate_order_cost for a MARKET order, in money units:  *)
(* quantity * price * (1 +- slippage), plus commission for a BUY and       *)
(* minus commission for a SELL; 0 when there is no latest price.           *)
PfEstimateOrderCost(p, sym, dir, qty) ==
    LET last == PfLatestPrice(p, sym)
        estE3 == IF dir = "BUY" THEN last * (E3 + DEFAULT_SLIPPAGE_PERCENT_E3)
                 ELSE last * (E3 - DEFAULT_SLIPPAGE_PERCENT_E3)
    IN  IF qty <= 0 \/ last = NoPrice THEN 0
        ELSE IF dir = "BUY"
             THEN qty * estE3 * (E4 + DEFAULT_COMMISSION_RATE_E4)
             ELSE qty * estE3 * (E4 - DEFAULT_COMMISSION_RATE_E4)

(* BasePortfolio._check_risk_before_order *)
PfCheckRisk(p, sym, dir, qty) ==
    LET est == PfEstimateOrderCost(p, sym, dir, qty)
        projected == p.qty[sym] + p.pendingChg[sym]
    IN  /\ dir = "BUY" => (est > 0 /\ est <= p.cash - p.reserved)
        /\ dir = "SELL" => qty <= projected

(* BasePortfolio.get_total_portfolio_value, in money units.  The fallback  *)
(* to the cost basis is rounded down to a money unit.                      *)
RECURSIVE PfHoldingsValue(_, _)
PfHoldingsValue(p, syms) ==
    IF syms = {} THEN 0
    ELSE LET s == CHOOSE x \in syms : TRUE
             v == IF p.qty[s] = 0 THEN 0
                  ELSE IF p.lastPrice[s] > 0
                       THEN p.qty[s] * p.lastPrice[s] * MoneyScale
                       ELSE (p.qty[s] * p.cb[s].n * E3) \div p.cb[s].d
         IN  v + PfHoldingsValue(p, syms \ {s})

PfTotalValue(p) == p.cash + PfHoldingsValue(p, Symbols)

(* MomentumPortfolio.on_signal, steps 2-5: the order the signal asks for,  *)
(* as <<direction, quantity>>, or <<"", 0>> for none.  The difference      *)
(* between the target and the projected quantity is the rational num/den.  *)
PfSizeOrder(p, sig) ==
    LET latest == PfLatestPrice(p, sig.sym)
        tv == PfTotalValue(p)
        den == WeightDen * latest * MoneyScale
        num == Max(0, tv * sig.w) - (p.qty[sig.sym] + p.pendingChg[sig.sym]) * den
        thr == 95 * LotSize * (den \div 100)
    IN  IF sig.dir \notin {"LONG", "SHORT"} \/ sig.w < 0 THEN <<"", 0>>
        ELSE IF latest = NoPrice \/ tv <= 0 THEN <<"", 0>>
        ELSE IF num > thr THEN <<"BUY", (num \div (den * LotSize)) * LotSize>>
        ELSE IF num < 0 - thr
             THEN <<"SELL", ((0 - num) \div (den * LotSize)) * LotSize>>
        ELSE <<"", 0>>

(* MomentumPortfolio._generate_flat_order: close the confirmed position. *)
PfFlatOrder(p, sym) ==
    IF p.qty[sym] = 0 THEN <<"", 0>>
    ELSE <<IF p.qty[sym] > 0 THEN "SELL" ELSE "BUY", Abs(p.qty[sym])>>

(* The pre-deduction both order paths make for an accepted order. *)
PfAddPending(p, order) ==
    LET est == PfEstimateOrderCost(p, order.sym, order.dir, order.qty) IN
    [p EXCEPT
       !.pending = @ \cup {order},
       !.reserved = IF order.dir = "BUY" THEN @ + est ELSE @,
       !.pendingChg[order.sym] =
           IF order.dir = "BUY" THEN @ + order.qty ELSE @ - order.qty]

(* A portfolio that forgets to delete a filled order from pending_orders. *)
PfRevertPendingKeepsOrder(p, fill) ==
    LET found == {o \in p.pending : o.id = fill.id} IN
    IF found = {} THEN p
    ELSE LET o == CHOOSE x \in found : TRUE
             est == PfEstimateOrderCost(p, o.sym, o.dir, o.qty)
         IN  [p EXCEPT
                !.reserved = IF o.dir = "BUY" THEN Max(0, @ - est) ELSE @,
                !.pendingChg[fill.sym] =
                    IF o.dir = "BUY" THEN @ - o.qty ELSE @ + o.qty]

(* BasePortfolio._update_state_from_fill, step 1: revert the pending state *)
PfRevertPending(p, fill) ==
    LET found == {o \in p.pending : o.id = fill.id} IN
    IF found = {} THEN p
    ELSE LET o == CHOOSE x \in found : TRUE
             est == PfEstimateOrderCost(p, o.sym, o.dir, o.qty)
         IN  [p EXCEPT
                !.reserved = IF o.dir = "BUY" THEN Max(0, @ - est) ELSE @,
                !.pendingChg[fill.sym] =
                    IF o.dir = "BUY" THEN @ - o.qty ELSE @ + o.qty,
                !.pending = @ \ {o}]

PfNewCostBasis(p, fill) ==
    LET cur == p.qty[fill.sym]
        cb == p.cb[fill.sym]
    IN  IF fill.dir = "BUY"
        THEN IF cur > 0
             THEN IF cur + fill.qty > 0
                  THEN Rat(cur * cb.n + fill.qty * fill.price * cb.d,
                           cb.d * (cur + fill.qty))
                  ELSE Rat(0, 1)
             ELSE Rat(fill.price, 1)
        ELSE IF cur - fill.qty <= 0 THEN Rat(0, 1) ELSE cb

PfUpdateStateFromFill(p, fill) ==
    LET q == PfRevertPending(p, fill)
        tradeValue == fill.qty * fill.price * E3
    IN  [q EXCEPT
           !.cash = IF fill.dir = "BUY" THEN @ - (tradeValue + fill.commission)
                    ELSE IF fill.dir = "SELL"
                         THEN @ + (tradeValue - fill.commission)
                         ELSE @,
           !.qty[fill.sym] = IF fill.dir = "BUY" THEN @ + fill.qty
                             ELSE IF fill.dir = "SELL" THEN @ - fill.qty ELSE @,
           !.cb[fill.sym] = IF fill.dir \in {"BUY", "SELL"}
                            THEN PfNewCostBasis(p, fill) ELSE @]

----------------------------------------------------------------------------
(* trader-v2: SimulatedExecutionHandler                                     *)
(* (src/trader-v2/components/execution_handler.py)                          *)

(* Base price of a bar: data['open'], else data['close']. *)
ExBasePrice(ev) == IF ev.open # NoPrice THEN ev.open ELSE ev.close

(* Fill price with slippage, in 1/E4 currency units. *)
ExFillPrice(base, dir) ==
    IF dir = "BUY" THEN base * (E4 + EXEC_SLIPPAGE_E4)
    ELSE base * (E4 - EXEC_SLIPPAGE_E4)

(* commission = final_fill_price * quantity * commission_percent *)
ExCommission(price, qty) == price * qty * EXEC_COMMISSION_E3

ExIsNewTimeStep(x, ev) == x.lastTs = NoTs \/ ev.ts > x.lastTs

(* The orders a market event settles: every pending order, whatever its    *)
(* symbol, when the bar's base price is positive.                          *)
ExCanSettle(x, ev, order) ==
    /\ ExBasePrice(ev) > 0
    /\ ExFillPrice(ExBasePrice(ev), order.dir) > 0

RECURSIVE ExFills(_, _, _)
ExFills(x, ev, orders) ==
    IF orders = <<>> THEN <<>>
    ELSE LET o == Head(orders)
             price == ExFillPrice(ExBasePrice(ev), o.dir)
             rest == ExFills(x, ev, Tail(orders))
         IN  IF ExCanSettle(x, ev, o)
             THEN <<FillEvent(o, price, ExCommission(price, o.qty), ev.ts,
                              ev.cause)>> \o rest
             ELSE rest

RECURSIVE ExRemaining(_, _, _)
ExRemaining(x, ev, orders) ==
    IF orders = <<>> THEN <<>>
    ELSE IF ExCanSettle(x, ev, Head(orders))
         THEN ExRemaining(x, ev, Tail(orders))
         ELSE <<Head(orders)>> \o ExRemaining(x, ev, Tail(orders))

(* History of stalled settlements.  An order pending when a new-timestamp  *)
(* market event without a positive base price is handled is recorded with  *)
(* that timestamp, with whether it was kept and whether no fill was        *)
(* published; the first market event handled later with a greater          *)
(* timestamp and a positive base price marks it filled or missed.          *)
ExStallsAfter(stalls, x, ev, fills, remaining) ==
    LET valid == ExBasePrice(ev) > 0
        marked == {[s EXCEPT !.next =
                      IF s.next = "open" /\ valid /\ ev.ts > s.ts
                      THEN IF \E i \in 1..Len(fills) : fills[i].id = s.id
                           THEN "filled" ELSE "missed"
                      ELSE @] : s \in stalls}
        new == IF ExIsNewTimeStep(x, ev) /\ ~valid
               THEN {[id |-> x.pending[i].id, ts |-> ev.ts,
                      kept |-> \E j \in 1..Len(remaining) :
                                 remaining[j].id = x.pending[i].id,
                      quiet |-> fills = <<>>, next |-> "open"] :
                       i \in 1..Len(x.pending)}
               ELSE {}
    IN  marked \cup new

----------------------------------------------------------------------------
(* trader-v2 wiring (src/trader-v2/sample.py): listeners per event type in *)
(* subscription order.                                                     *)

BusListeners ==
    [t \in EventTypes |->
       CASE t = "MARKET" -> <<"strategy", "pf_price", "ex_settle">>
         [] t = "SIGNAL" -> <<"pf_signal">>
         [] t = "ORDER" -> <<"ex_order">>
         [] t = "FILL" -> <<"pf_fill">>
         [] t = "BACKTEST_END" -> <<"feed_end">>]

(* The same wiring with the Portfolio / SimulatedExecutionHandler pair of  *)
(* src/trader_v2/components/combined.py in place of the two trader-v2     *)
(* components.                                                             *)
CombinedListeners ==
    [t \in EventTypes |->
       CASE t = "MARKET" -> <<"strategy", "cb_market", "cb_settle">>
         [] t = "SIGNAL" -> <<"cb_signal">>
         [] t = "ORDER" -> <<"cb_order">>
         [] t = "FILL" -> <<"cb_fill">>
         [] t = "BACKTEST_END" -> <<"feed_end">>]

(* SimulatedExecutionHandler of trader-v2 alone on the bus. *)
ExecListeners ==
    [t \in EventTypes |->
       CASE t = "MARKET" -> <<"ex_settle">>
         [] t = "ORDER" -> <<"ex_order">>
         [] OTHER -> <<>>]

BusWiring == feed.kind = "mock"

(* MockDataFeed.__init__, with the component pair the run is built with. *)
MockFeedInit(pair) ==
    [kind |-> "mock", pair |-> pair, index |-> 0, running |-> TRUE,
     isBacktesting |-> TRUE, waiting |-> FALSE, done |-> FALSE,
     lastTs |-> NoTs, latest |-> [s \in Symbols |-> NoPrice]]

(* What every task does when it publishes `evs` and then returns or        *)
(* suspends: the events are queued and a waiting run loop is woken.        *)
Publish(evs, rest) ==
    /\ queue' = PublishAll(queue, evs)
    /\ unfinished' = unfinished + Len(evs)
    /\ ready' = IF evs # <<>> THEN PutWakes(rest, getterWaits) ELSE rest
    /\ getterWaits' = IF evs # <<>> THEN FALSE ELSE getterWaits

HeadIs(t, h) == ready # <<>> /\ Head(ready).t = t /\ Head(ready).h = h

Opens == {NoPrice, 0, MaxPrice}
Closes == {1, MaxPrice}

(* MockDataFeed.start_feed, one iteration: publish the next data point and *)
(* wait in wait_until_queue_empty().  The data points are sorted by        *)
(* timestamp; the index is advanced when the wait has returned.            *)
FeedAdvance(f) ==
    IF f.waiting THEN [f EXCEPT !.index = @ + 1, !.waiting = FALSE] ELSE f

FeedPublish ==
    /\ BusWiring /\ HeadIs("feed", "")
    /\ FeedAdvance(feed).running /\ FeedAdvance(feed).index < MaxBars
    /\ \E sym \in Symbols, step \in {0, 1}, open \in Opens, close \in Closes :
         LET f == FeedAdvance(feed)
             ts == IF f.index = 0 THEN 1 ELSE f.lastTs + step
             ev == MarketEvent(sym, ts, open, close, f.index + 1)
         IN  /\ queue' = Append(queue, ev)
             /\ unfinished' = unfinished + 1
             /\ ready' = PutWakes(Tail(ready), getterWaits)
             /\ getterWaits' = FALSE
             /\ joinWaiters' = Append(joinWaiters, "feed")
             /\ feed' = [f EXCEPT !.lastTs = ts, !.waiting = TRUE]
             /\ log' = [log EXCEPT !.bars = Append(@, ev)]
    /\ UNCHANGED <<exec, pf, broker, engine, nextId>>

(* MockDataFeed.start_feed after the loop: BacktestEndEvent if still       *)
(* running, then _running = False.                                         *)
FeedFinish ==
    /\ BusWiring /\ HeadIs("feed", "")
    /\ ~feed.done
    /\ ~(FeedAdvance(feed).running /\ FeedAdvance(feed).index < MaxBars)
    /\ Publish(IF feed.isBacktesting /\ feed.running
               THEN <<BacktestEndEvent(FeedAdvance(feed).index)>> ELSE <<>>,
               Tail(ready))
    /\ feed' = [FeedAdvance(feed) EXCEPT !.running = FALSE, !.done = TRUE]
    /\ UNCHANGED <<joinWaiters, exec, pf, broker, engine, nextId, log>>

(* EventBus.run from one suspension in `await self._queue.get()` to the    *)
(* next: every queued event is dispatched and marked done; the last        *)
(* task_done() wakes the tasks waiting in join().                          *)
BusRun(L) ==
    /\ HeadIs("bus", "")
    /\ ready' = Tail(ready) \o DispatchAll(queue, L)
                  \o (IF unfinished = Len(queue) /\ queue # <<>>
                      THEN WakeAll(joinWaiters) ELSE <<>>)
    /\ joinWaiters' = IF unfinished = Len(queue) /\ queue # <<>>
                      THEN <<>> ELSE joinWaiters
    /\ unfinished' = unfinished - Len(queue)
    /\ queue' = <<>>
    /\ getterWaits' = TRUE

BusStep ==
    /\ BusWiring
    /\ BusRun(CASE feed.pair = "combined" -> CombinedListeners
                [] feed.pair = "exec" -> ExecListeners
                [] OTHER -> BusListeners)
    /\ UNCHANGED <<feed, exec, pf, broker, engine, nextId, log>>

(* The strategy's market handler: at most one signal for the bar's symbol. *)
(* Which signal depends on the price history, which is left open.          *)
StrategyOnMarket ==
    /\ BusWiring /\ HeadIs("handler", "strategy")
    /\ \E dir \in {"", "LONG", "SHORT", "FLAT"}, w \in Weights :
         LET ev == Head(ready).ev IN
         Publish(IF dir = "" THEN <<>>
                 ELSE <<SignalEvent(ev.sym, dir, w, ev.cause, ev.ts)>>,
                 Tail(ready))
    /\ UNCHANGED <<joinWaiters, feed, exec, pf, broker, engine, nextId, log>>

(* BasePortfolio._on_market_event_for_price *)
PfOnMarketEventForPrice ==
    /\ BusWiring /\ HeadIs("handler", "pf_price")
    /\ LET ev == Head(ready).ev IN
       pf' = IF ev.close > 0 THEN [pf EXCEPT !.lastPrice[ev.sym] = ev.close]
             ELSE pf
    /\ ready' = Tail(ready)
    /\ UNCHANGED <<queue, unfinished, getterWaits, joinWaiters, feed, exec,
                   broker, engine, nextId, log>>

(* MomentumPortfolio.on_signal *)
PfOnSignal ==
    /\ BusWiring /\ HeadIs("handler", "pf_signal")
    /\ LET sig == Head(ready).ev
           want == IF sig.dir = "FLAT" THEN PfFlatOrder(pf, sig.sym)
                   ELSE PfSizeOrder(pf, sig)
           order == OrderEvent(nextId, sig.sym, want[1], want[2], sig.cause,
                               sig.srcTs)
           accepted == want[2] > 0 /\ PfCheckRisk(pf, sig.sym, want[1], want[2])
       IN  /\ pf' = IF accepted THEN PfAddPending(pf, order) ELSE pf
           /\ nextId' = IF accepted THEN nextId + 1 ELSE nextId
           /\ Publish(IF accepted THEN <<order>> ELSE <<>>, Tail(ready))
           /\ log' = IF accepted THEN [log EXCEPT !.orders = Append(@, order)]
                     ELSE log
    /\ UNCHANGED <<joinWaiters, feed, exec, broker, engine>>

(* SimulatedExecutionHandler._on_order_event *)
ExOnOrderEvent ==
    /\ BusWiring /\ HeadIs("handler", "ex_order")
    /\ exec' = [exec EXCEPT !.pending = Append(@, Head(ready).ev)]
    /\ ready' = Tail(ready)
    /\ UNCHANGED <<queue, unfinished, getterWaits, joinWaiters, feed, pf,
                   broker, engine, nextId, log>>

(* SimulatedExecutionHandler._on_market_event_for_settlement *)
ExOnMarketEventForSettlement ==
    /\ BusWiring /\ HeadIs("handler", "ex_settle")
    /\ LET ev == Head(ready).ev
           fills == IF ExIsNewTimeStep(exec, ev)
                    THEN ExFills(exec, ev, exec.pending) ELSE <<>>
       IN  /\ exec' = IF ExIsNewTimeStep(exec, ev)
                      THEN [pending |-> ExRemaining(exec, ev, exec.pending),
                            lastTs |-> ev.ts]
                      ELSE exec
           /\ Publish(fills, Tail(ready))
           /\ log' = [log EXCEPT
                        !.fills = @ \o fills,
                        !.stalls = ExStallsAfter(@, exec, ev, fills,
                                                 exec'.pending)]
    /\ UNCHANGED <<joinWaiters, feed, pf, broker, engine, nextId>>

(* BasePortfolio._on_fill_event *)
PfOnFillEvent ==
    /\ BusWiring /\ HeadIs("handler", "pf_fill")
    /\ LET fill == Head(ready).ev IN
       /\ pf' = PfUpdateStateFromFill(pf, fill)
       /\ log' = [log EXCEPT !.applied = Append(@,
                     [id |-> fill.id, dir |-> fill.dir,
                      wasPending |-> \E o \in pf.pending : o.id = fill.id,
                      cash |-> PfUpdateStateFromFill(pf, fill).cash])]
    /\ ready' = Tail(ready)
    /\ UNCHANGED <<queue, unfinished, getterWaits, joinWaiters, feed, exec,
                   broker, engine, nextId>>

(* MockDataFeed._handle_backtest_end *)
FeedHandleBacktestEnd ==
    /\ BusWiring /\ HeadIs("handler", "feed_end")
    /\ feed' = [feed EXCEPT !.running = FALSE]
    /\ ready' = Tail(ready)
    /\ UNCHANGED <<queue, unfinished, getterWaits, joinWaiters, exec, pf,
                   broker, engine, nextId, log>>

(* State of src/trader-v2/sample.py when main() has created the feed task: *)
(* the run loop is suspended in get(), the BacktestStartEvent has been     *)
(* handled and the queue is empty.                                         *)
PfInit ==
    [cash |-> InitialCash * MoneyScale, reserved |-> 0,
     qty |-> [s \in Symbols |-> 0], cb |-> [s \in Symbols |-> Rat(0, 1)],
     pendingChg |-> [s \in Symbols |-> 0], pending |-> {},
     lastPrice |-> [s \in Symbols |-> NoPrice]]

ExInit == [pending |-> <<>>, lastTs |-> NoTs]

LogInit ==
    [bars |-> <<>>, orders |-> <<>>, fills |-> <<>>, applied |-> <<>>,
     settled |-> <<>>, signal |-> <<>>, stalls |-> {},
     published |-> <<>>, dispatched |-> <<>>, trace |-> <<>>]

InitBus ==
    /\ ready = <<FeedTask>>
    /\ queue = <<>>
    /\ unfinished = 0
    /\ getterWaits = TRUE
    /\ joinWaiters = <<>>
    /\ feed = MockFeedInit("split")
    /\ exec = ExInit
    /\ pf = PfInit
    /\ broker = BrInit
    /\ engine = EngineInit("none")
    /\ nextId = 1
    /\ log = LogInit

NextBus ==
    \/ FeedPublish
    \/ FeedFinish
    \/ BusStep
    \/ StrategyOnMarket
    \/ PfOnMarketEventForPrice
    \/ PfOnSignal
    \/ ExOnOrderEvent
    \/ ExOnMarketEventForSettlement
    \/ PfOnFillEvent
    \/ FeedHandleBacktestEnd

SpecBus == InitBus /\ [][NextBus]_vars

----------------------------------------------------------------------------
(* Properties of the trader-v2 wiring                                      *)

SeqRange(q) == {q[i] : i \in 1..Len(q)}

Count(q, id) == Cardinality({i \in 1..Len(q) : q[i].id = id})

(* The work a market data point causes: events it leads to, queued; and    *)
(* handler calls for it or for such events, not yet run.                   *)
CausedEvents == {e \in SeqRange(queue) : e.type \in {"SIGNAL", "ORDER", "FILL"}}
CausedCalls == {t.ev : t \in {x \in SeqRange(ready) : x.t = "handler"}}

(* C2: when MockDataFeed has published a market event, no handler call and *)
(* no signal, order or fill caused by an earlier market event is queued or *)
(* waiting to run.                                                         *)
C2_FeedWaitsForCausedWork ==
    BusWiring =>
      \A e \in CausedEvents \cup CausedCalls :
         e.type = "BACKTEST_END" \/ e.cause = Len(log.bars)

(* C3: an order id gets at most one FillEvent and is applied at most once; *)
(* an accepted order is in Portfolio.pending_orders exactly until its      *)
(* FillEvent has been handled; an order is in the execution handler's      *)
(* pending list only while it has no fill.                                 *)
C3_OneFillPerOrder ==
    BusWiring =>
      /\ \A o \in SeqRange(log.orders) :
           /\ Count(log.fills, o.id) <= 1
           /\ Count(log.applied, o.id) <= 1
           /\ (o \in pf.pending) <=> (Count(log.applied, o.id) = 0)
      /\ \A a \in SeqRange(log.applied) : a.wasPending
      /\ \A o \in SeqRange(exec.pending) : Count(log.fills, o.id) = 0

C3_Witness ==
    /\ BusWiring
    /\ \E o \in SeqRange(log.orders) :
         Count(log.applied, o.id) = 1 /\ o \notin pf.pending

(* C5: every fill is published while handling a market event of the        *)
(* filled order's own symbol.                                              *)
C5_FillOnOwnSymbol ==
    BusWiring => \A f \in SeqRange(log.fills) : log.bars[f.cause].sym = f.sym

(* C8: an order whose signal came from the market event of timestamp T is  *)
(* filled from the first market event with a timestamp greater than T and  *)
(* a valid price.                                                          *)
FirstFillable(srcTs) ==
    LET ok == {n \in 1..Len(log.bars) :
                 log.bars[n].ts > srcTs /\ ExBasePrice(log.bars[n]) > 0}
    IN  IF ok = {} THEN 0 ELSE CHOOSE n \in ok : \A m \in ok : n <= m

C8_FilledAtFirstLaterBar ==
    BusWiring =>
      \A f \in SeqRange(log.fills) : f.cause = FirstFillable(f.srcTs)

(* C10: after every BUY fill the portfolio applies, cash is not negative.  *)
C10_CashAfterBuyFill ==
    BusWiring =>
      \A a \in SeqRange(log.applied) : a.dir = "BUY" => a.cash >= 0

----------------------------------------------------------------------------
(* SimulatedExecutionHandler of trader-v2 alone on the bus: OrderEvents    *)
(* and MarketEvents are published by other components, one when the bus is *)
(* idle; market timestamps do not decrease.  A bar may lack both prices.   *)

ExecWiring == BusWiring /\ feed.pair = "exec"

EnvPublishOrder ==
    /\ ExecWiring /\ ready = <<>> /\ queue = <<>>
    /\ nextId <= ExecOrders
    /\ \E sym \in Symbols, dir \in {"BUY", "SELL"} :
         Publish(<<OrderEvent(nextId, sym, dir, 1, feed.index, feed.lastTs)>>,
                 ready)
    /\ nextId' = nextId + 1
    /\ UNCHANGED <<joinWaiters, feed, exec, pf, broker, engine, log>>

EnvPublishMarket ==
    /\ ExecWiring /\ ready = <<>> /\ queue = <<>>
    /\ feed.index < ExecBars
    /\ \E sym \in Symbols, step \in {0, 1}, open \in Opens,
          close \in Closes \cup {NoPrice} :
         LET ts == IF feed.index = 0 THEN 1 ELSE feed.lastTs + step IN
         /\ Publish(<<MarketEvent(sym, ts, open, close, feed.index + 1)>>,
                    ready)
         /\ feed' = [feed EXCEPT !.index = @ + 1, !.lastTs = ts]
    /\ UNCHANGED <<joinWaiters, exec, pf, broker, engine, nextId, log>>

InitExec ==
    /\ ready = <<>>
    /\ queue = <<>>
    /\ unfinished = 0
    /\ getterWaits = TRUE
    /\ joinWaiters = <<>>
    /\ feed = MockFeedInit("exec")
    /\ exec = ExInit
    /\ pf = PfInit
    /\ broker = BrInit
    /\ engine = EngineInit("none")
    /\ nextId = 1
    /\ log = LogInit

NextExec ==
    \/ EnvPublishOrder
    \/ EnvPublishMarket
    \/ BusStep
    \/ ExOnOrderEvent
    \/ ExOnMarketEventForSettlement

SpecExec == InitExec /\ [][NextExec]_vars

(* C14: when a new-timestamp market event without a positive settlement    *)
(* price has been handled, no fill was published and every pending order   *)
(* was kept; and each such order has been filled at the first market event *)
(* handled afterwards with a greater timestamp and a positive price.       *)
C14_StalledOrderFilledAtNextValidBar ==
    BusWiring =>
      \A s \in log.stalls : s.kept /\ s.quiet /\ s.next # "missed"

----------------------------------------------------------------------------
(* trader_v2: MomentumBroker (src/trader_v2/components/portfolio.py)       *)

(* BaseBroker.get_latest_price: what the data feed reports, or None. *)
BrLatestPrice(sym) == feed.latest[sym]

(* BaseBroker._estimate_order_cost of a BUY MARKET order, in money units. *)
BrEstimateBuyCost(sym, qty) ==
    LET last == BrLatestPrice(sym) IN
    IF qty <= 0 \/ last = NoPrice \/ last <= 0 THEN 0
    ELSE qty * last * (E3 + DEFAULT_SLIPPAGE_PERCENT_E3)
             * (E4 + DEFAULT_COMMISSION_RATE_E4)

(* A risk check that does not compare the estimated cost with the cash. *)
BrCheckRiskWithoutCash(b, sym, dir, qty) ==
    /\ qty > 0
    /\ dir = "BUY" => BrEstimateBuyCost(sym, qty) > 0
    /\ dir = "SELL" => qty <= b.qty[sym]

(* BaseBroker._check_risk_before_order *)
BrCheckRisk(b, sym, dir, qty) ==
    /\ qty > 0
    /\ dir = "BUY" => /\ BrEstimateBuyCost(sym, qty) > 0
                      /\ BrEstimateBuyCost(sym, qty) <= b.cash
    /\ dir = "SELL" => qty <= b.qty[sym]

(* A total value that counts nothing for a position without a valid price. *)
RECURSIVE BrHoldingsValueAtPriceOnly(_, _)
BrHoldingsValueAtPriceOnly(b, syms) ==
    IF syms = {} THEN 0
    ELSE LET s == CHOOSE x \in syms : TRUE
             v == IF b.qty[s] # 0 /\ BrLatestPrice(s) > 0
                  THEN b.qty[s] * BrLatestPrice(s) * MoneyScale
                  ELSE 0
         IN  v + BrHoldingsValueAtPriceOnly(b, syms \ {s})

(* BaseBroker.get_total_portfolio_value, in money units; the cost basis is *)
(* kept in 1/E3 currency units and the fallback is rounded down.           *)
RECURSIVE BrHoldingsValue(_, _)
BrHoldingsValue(b, syms) ==
    IF syms = {} THEN 0
    ELSE LET s == CHOOSE x \in syms : TRUE
             v == IF b.qty[s] = 0 THEN 0
                  ELSE IF BrLatestPrice(s) # NoPrice /\ BrLatestPrice(s) > 0
                       THEN b.qty[s] * BrLatestPrice(s) * MoneyScale
                       ELSE (b.qty[s] * b.cb[s].n * E4) \div b.cb[s].d
         IN  v + BrHoldingsValue(b, syms \ {s})

BrTotalValue(b) == b.cash + BrHoldingsValue(b, Symbols)

(* An on_signal that rounds the quantity to the nearest lot, not down. *)
BrSizeOrderNearest(b, sig) ==
    LET latest == BrLatestPrice(sig.sym)
        tv == BrTotalValue(b)
        den == WeightDen * latest * MoneyScale
        target == IF sig.dir = "LONG" THEN Max(0, tv * sig.w)
                  ELSE 0 - Max(0, tv * sig.w)
        num == target - b.qty[sig.sym] * den
        thr == 99 * b.lot * (den \div 100)
        half == (den * b.lot) \div (1 + 1)
    IN  IF sig.dir \notin {"LONG", "SHORT"} \/ sig.w < 0 THEN <<"", 0>>
        ELSE IF latest = NoPrice \/ latest <= 0 THEN <<"", 0>>
        ELSE IF tv <= MoneyScale \div (E3 * E3) THEN <<"", 0>>
        ELSE IF num > thr
             THEN <<"BUY", ((num + half) \div (den * b.lot)) * b.lot>>
        ELSE IF num < 0 - thr
             THEN <<"SELL",
                    ((half - num) \div (den * b.lot)) * b.lot>>
        ELSE <<"", 0>>

(* An on_signal that rounds the quantity down to whole shares, not lots. *)
BrSizeOrderWholeShares(b, sig) ==
    LET latest == BrLatestPrice(sig.sym)
        tv == BrTotalValue(b)
        den == WeightDen * latest * MoneyScale
        target == IF sig.dir = "LONG" THEN Max(0, tv * sig.w)
                  ELSE 0 - Max(0, tv * sig.w)
        num == target - b.qty[sig.sym] * den
        thr == 99 * b.lot * (den \div 100)
    IN  IF sig.dir \notin {"LONG", "SHORT"} \/ sig.w < 0 THEN <<"", 0>>
        ELSE IF latest = NoPrice \/ latest <= 0 THEN <<"", 0>>
        ELSE IF tv <= MoneyScale \div (E3 * E3) THEN <<"", 0>>
        ELSE IF num > thr THEN <<"BUY", num \div den>>
        ELSE IF num < 0 - thr THEN <<"SELL", (0 - num) \div den>>
        ELSE <<"", 0>>

(* MomentumBroker.on_signal for LONG / SHORT: the order asked for, as      *)
(* <<direction, quantity>>.  total_portfolio_value <= 1e-6 is 10 units.    *)
BrSizeOrder(b, sig) ==
    LET latest == BrLatestPrice(sig.sym)
        tv == BrTotalValue(b)
        den == WeightDen * latest * MoneyScale
        target == IF sig.dir = "LONG" THEN Max(0, tv * sig.w)
                  ELSE 0 - Max(0, tv * sig.w)
        num == target - b.qty[sig.sym] * den
        thr == 99 * b.lot * (den \div 100)
    IN  IF sig.dir \notin {"LONG", "SHORT"} \/ sig.w < 0 THEN <<"", 0>>
        ELSE IF latest = NoPrice \/ latest <= 0 THEN <<"", 0>>
        ELSE IF tv <= MoneyScale \div (E3 * E3) THEN <<"", 0>>
        ELSE IF num > thr THEN <<"BUY", (num \div (den * b.lot)) * b.lot>>
        ELSE IF num < 0 - thr
             THEN <<"SELL", ((0 - num) \div (den * b.lot)) * b.lot>>
        ELSE <<"", 0>>

(* A FLAT order for one lot instead of the whole position. *)
BrFlatOrderOneLot(b, sym) ==
    IF b.qty[sym] = 0 THEN <<"", 0>>
    ELSE <<IF b.qty[sym] > 0 THEN "SELL" ELSE "BUY", b.lot>>

(* on_signal for FLAT, with MomentumBroker._generate_flat_order. *)
BrFlatOrder(b, sym) ==
    IF b.qty[sym] = 0 THEN <<"", 0>>
    ELSE <<IF b.qty[sym] > 0 THEN "SELL" ELSE "BUY", Abs(b.qty[sym])>>

(* Pending orders kept by id instead of by the time they were accepted. *)
BrAcceptInIdOrder(b, order) ==
    [b EXCEPT !.pending = IF order.id % (1 + 1) = 0 THEN <<order>> \o @
                          ELSE Append(@, order)]

(* An on_signal that sets the estimated cost of an accepted BUY aside. *)
BrAcceptReservesCash(b, order) ==
    [b EXCEPT !.pending = Append(@, order),
              !.cash = IF order.dir = "BUY"
                       THEN @ - BrEstimateBuyCost(order.sym, order.qty) ELSE @]

(* on_signal / _generate_flat_order: an order that passed the risk check   *)
(* is stored in _pending_orders under its id.                              *)
BrAccept(b, order) == [b EXCEPT !.pending = Append(@, order)]

(* Fill price with slippage, in 1/E3 currency units. *)
BrFillPrice(base, dir) ==
    IF dir = "BUY" THEN base * (E3 + DEFAULT_SLIPPAGE_PERCENT_E3)
    ELSE base * (E3 - DEFAULT_SLIPPAGE_PERCENT_E3)

(* Cost of a BUY / proceeds of a SELL with commission, in money units. *)
BrCost(o, price) == o.qty * price * (E4 + DEFAULT_COMMISSION_RATE_E4)
BrProceeds(o, price) == o.qty * price * (E4 - DEFAULT_COMMISSION_RATE_E4)

(* on_market_event: whether the order is settled now. *)
BrSettles(b, o) ==
    LET latest == BrLatestPrice(o.sym) IN
    /\ latest # NoPrice /\ latest > 0
    /\ BrFillPrice(latest, o.dir) > 0
    /\ ~(o.dir = "BUY" /\ BrCost(o, BrFillPrice(latest, o.dir)) > b.cash
                       /\ b.qty[o.sym] + o.qty > 0)

(* A settlement that leaves the cost basis of a closed position in place. *)
BrNewCostBasisKeptAtZero(b, o, price) ==
    LET cur == b.qty[o.sym]
        cb == b.cb[o.sym]
        new == IF o.dir = "BUY" THEN cur + o.qty ELSE cur - o.qty
        avg == Rat(Abs(cur) * cb.n + o.qty * price * cb.d,
                   cb.d * Max(1, Abs(new)))
    IN  IF o.dir = "BUY"
        THEN IF cur < 0 THEN (IF new > 0 THEN Rat(price, 1) ELSE cb)
             ELSE avg
        ELSE IF cur > 0 THEN (IF new < 0 THEN Rat(price, 1) ELSE cb)
             ELSE avg

(* on_market_event: the cost basis after the order is settled at `price`. *)
BrNewCostBasis(b, o, price) ==
    LET cur == b.qty[o.sym]
        cb == b.cb[o.sym]
        new == IF o.dir = "BUY" THEN cur + o.qty ELSE cur - o.qty
        avg == Rat(Abs(cur) * cb.n + o.qty * price * cb.d, cb.d * Abs(new))
    IN  IF new = 0 THEN Rat(0, 1)
        ELSE IF o.dir = "BUY"
             THEN IF cur < 0 THEN (IF new > 0 THEN Rat(price, 1) ELSE cb)
                  ELSE avg
             ELSE IF cur > 0 THEN (IF new < 0 THEN Rat(price, 1) ELSE cb)
                  ELSE avg

BrSettleOne(b, o) ==
    LET price == BrFillPrice(BrLatestPrice(o.sym), o.dir) IN
    [b EXCEPT
       !.cash = IF o.dir = "BUY" THEN @ - BrCost(o, price)
                ELSE @ + BrProceeds(o, price),
       !.qty[o.sym] = IF o.dir = "BUY" THEN @ + o.qty ELSE @ - o.qty,
       !.cb[o.sym] = BrNewCostBasis(b, o, price)]

(* One pass of on_market_event over the pending orders, in order; `st` is  *)
(* the broker with the orders kept so far and the settlements made.        *)
RECURSIVE BrSettleAll(_, _, _)
BrSettleAll(st, orders, ts) ==
    IF orders = <<>> THEN st
    ELSE LET o == Head(orders)
             b2 == BrSettleOne(st.b, o)
         IN  IF BrSettles(st.b, o)
             THEN BrSettleAll(
                    [b |-> b2, kept |-> st.kept,
                     done |-> Append(st.done,
                        [id |-> o.id, dir |-> o.dir, qty |-> o.qty,
                         sym |-> o.sym, qtyBefore |-> st.b.qty[o.sym],
                         qtyAfter |-> b2.qty[o.sym], cash |-> b2.cash,
                         ts |-> ts, srcTs |-> o.srcTs])],
                    Tail(orders), ts)
             ELSE BrSettleAll([st EXCEPT !.kept = Append(@, o)],
                              Tail(orders), ts)

(* A broker that settles on every market event. *)
BrEveryMarketEvent(b, ev) == TRUE

(* on_market_event: is_new_time_step *)
BrIsNewTimeStep(b, ev) == b.lastTs = NoTs \/ ev.ts > b.lastTs

(* A _record_nav without the guard on _last_nav_timestamp. *)
BrRecordNavAlways(b, ts) ==
    [b EXCEPT !.nav = Append(@, [ts |-> ts, value |-> BrTotalValue(b)]),
              !.navTs = ts]

(* BaseBroker._record_nav *)
BrRecordNav(b, ts) ==
    IF b.navTs # NoTs /\ ts <= b.navTs THEN b
    ELSE [b EXCEPT !.nav = Append(@, [ts |-> ts, value |-> BrTotalValue(b)]),
                   !.navTs = ts]

----------------------------------------------------------------------------
(* trader_v2 wiring: the broker subscribes in its constructor, before the  *)
(* strategy that is given the broker.                                      *)

BrokerListeners ==
    [t \in EventTypes |->
       CASE t = "MARKET" -> <<"br_market", "br_strategy">>
         [] t = "SIGNAL" -> <<"br_signal">>
         [] OTHER -> <<>>]

BrokerWiring == feed.kind = "sleep"

(* The feed and strategy of a run: `limit` market events are published,    *)
(* the strategy's signals carry a weight of `weights`, and `traced` says   *)
(* whether the history keeps what on_signal did.                           *)
SleepFeedInit(limit, weights, traced) ==
    [kind |-> "sleep", index |-> 0, running |-> TRUE,
     isBacktesting |-> TRUE, waiting |-> FALSE, done |-> FALSE,
     lastTs |-> NoTs, latest |-> [s \in Symbols |-> NoPrice],
     limit |-> limit, weights |-> weights, traced |-> traced]

BrokerCloses == {0, 1, MaxPrice}

(* The feed's loop as CSVDataFeed.start_feed runs it: publish a market     *)
(* event, `await asyncio.sleep(0)`, advance.  The broker accepts any       *)
(* BaseDataFeed: timestamps do not decrease and get_latest_price reports   *)
(* the close last published for the symbol.                                *)
BrFeedPublish ==
    /\ BrokerWiring /\ HeadIs("feed", "")
    /\ feed.running /\ feed.index < feed.limit
    /\ \E sym \in BrokerSymbols, step \in {0, 1}, close \in BrokerCloses :
         LET ts == IF feed.index = 0 THEN 1 ELSE feed.lastTs + step
             ev == MarketEvent(sym, ts, NoPrice, close, feed.index + 1)
         IN  /\ queue' = Append(queue, ev)
             /\ feed' = [feed EXCEPT !.lastTs = ts, !.index = @ + 1,
                                     !.latest[sym] = close]
    /\ unfinished' = unfinished + 1
    /\ ready' = Append(PutWakes(Tail(ready), getterWaits), FeedTask)
    /\ getterWaits' = FALSE
    /\ UNCHANGED <<joinWaiters, exec, pf, broker, engine, nextId, log>>

BrFeedFinish ==
    /\ BrokerWiring /\ HeadIs("feed", "")
    /\ ~(feed.running /\ feed.index < feed.limit)
    /\ feed' = [feed EXCEPT !.done = TRUE]
    /\ ready' = Tail(ready)
    /\ UNCHANGED <<queue, unfinished, getterWaits, joinWaiters, exec, pf,
                   broker, engine, nextId, log>>

BrBusStep ==
    /\ BrokerWiring /\ BusRun(BrokerListeners)
    /\ UNCHANGED <<feed, exec, pf, broker, engine, nextId, log>>

(* The strategy's market handler: at most one signal, for a traded symbol. *)
BrStrategyOnMarket ==
    /\ BrokerWiring /\ HeadIs("handler", "br_strategy")
    /\ \E dir \in {"", "LONG", "SHORT", "FLAT"}, sym \in BrokerSymbols,
          w \in feed.weights :
         LET ev == Head(ready).ev IN
         Publish(IF dir = "" THEN <<>>
                 ELSE <<SignalEvent(sym, dir, w, ev.cause, ev.ts)>>,
                 Tail(ready))
    /\ UNCHANGED <<joinWaiters, feed, exec, pf, broker, engine, nextId, log>>

(* MomentumBroker.on_signal *)
BrokerOnSignal ==
    /\ BrokerWiring /\ HeadIs("handler", "br_signal")
    /\ LET sig == Head(ready).ev
           want == IF sig.dir = "FLAT" THEN BrFlatOrder(broker, sig.sym)
                   ELSE BrSizeOrder(broker, sig)
           order == OrderEvent(nextId, sig.sym, want[1], want[2], sig.cause,
                               sig.srcTs)
           accepted == BrCheckRisk(broker, sig.sym, want[1], want[2])
       IN  /\ broker' = IF accepted THEN BrAccept(broker, order) ELSE broker
           /\ nextId' = IF accepted THEN nextId + 1 ELSE nextId
           /\ UNCHANGED <<queue, unfinished, getterWaits, joinWaiters, feed,
                          exec, pf, engine>>
           /\ log' = IF feed.traced
                     THEN [log EXCEPT !.signal =
                             <<[sig |-> sig, dir |-> want[1], qty |-> want[2],
                                est |-> BrEstimateBuyCost(sig.sym, want[2]),
                                latest |-> BrLatestPrice(sig.sym),
                                value |-> BrTotalValue(broker),
                                risk |-> accepted,
                                before |-> broker, after |-> broker',
                                published |-> Len(queue') - Len(queue)]>>]
                     ELSE log
    /\ ready' = Tail(ready)

(* BaseBroker._on_market_event: MomentumBroker.on_market_event, then       *)
(* _record_nav.                                                            *)
BrokerOnMarketEvent ==
    /\ BrokerWiring /\ HeadIs("handler", "br_market")
    /\ LET ev == Head(ready).ev
           st == BrSettleAll([b |-> broker, kept |-> <<>>, done |-> <<>>],
                             broker.pending, ev.ts)
           after == IF BrIsNewTimeStep(broker, ev)
                    THEN [st.b EXCEPT !.pending = st.kept, !.lastTs = ev.ts]
                    ELSE broker
       IN  /\ broker' = BrRecordNav(after, ev.ts)
           /\ log' = [log EXCEPT !.settled = IF BrIsNewTimeStep(broker, ev)
                                              THEN st.done ELSE <<>>]
    /\ ready' = Tail(ready)
    /\ UNCHANGED <<queue, unfinished, getterWaits, joinWaiters, feed, exec,
                   pf, engine, nextId>>

InitBroker ==
    /\ ready = <<FeedTask>>
    /\ queue = <<>>
    /\ unfinished = 0
    /\ getterWaits = TRUE
    /\ joinWaiters = <<>>
    /\ feed = SleepFeedInit(BrokerBars, Weights, FALSE)
    /\ exec = ExInit
    /\ pf = PfInit
    /\ broker = BrInit
    /\ engine = EngineInit("none")
    /\ nextId = 1
    /\ log = LogInit

NextBroker ==
    \/ BrFeedPublish
    \/ BrFeedFinish
    \/ BrBusStep
    \/ BrStrategyOnMarket
    \/ BrokerOnSignal
    \/ BrokerOnMarketEvent

SpecBroker == InitBroker /\ [][NextBroker]_vars

(* C4: no order is settled at a market event whose timestamp is the one of *)
(* the market event its signal came from; it is settled at a later one.    *)
C4_NoSameTimestampSettlement ==
    BrokerWiring => \A x \in SeqRange(log.settled) : x.ts > x.srcTs

C4_Witness ==
    /\ BrokerWiring
    /\ \E x \in SeqRange(log.settled) : x.ts > x.srcTs
    /\ \E o \in SeqRange(broker.pending) : o.srcTs = broker.lastTs

(* C6: cash is not negative after any BUY settlement of MomentumBroker.    *)
C6_CashAfterBuySettlement ==
    BrokerWiring =>
      \A x \in SeqRange(log.settled) : x.dir = "BUY" => x.cash >= 0

(* C7: every settled SELL has a quantity of at most the position held just *)
(* before it, and no position is negative.                                 *)
C7_NoShortPosition ==
    BrokerWiring =>
      /\ \A x \in SeqRange(log.settled) :
           x.dir = "SELL" => x.qty <= x.qtyBefore
      /\ \A s \in Symbols : broker.qty[s] >= 0

(* A short run of the same wiring, in which the strategy's signals also    *)
(* carry the weight 1.0 and the history keeps what on_signal did last.     *)
InitBrokerSignals ==
    /\ ready = <<FeedTask>>
    /\ queue = <<>>
    /\ unfinished = 0
    /\ getterWaits = TRUE
    /\ joinWaiters = <<>>
    /\ feed = SleepFeedInit(SignalBars, WideWeights, TRUE)
    /\ exec = ExInit
    /\ pf = PfInit
    /\ broker = BrInit
    /\ engine = EngineInit("none")
    /\ nextId = 1
    /\ log = LogInit

SpecBrokerSignals == InitBrokerSignals /\ [][NextBroker]_vars

(* C12: when the order MomentumBroker.on_signal has built is a BUY whose   *)
(* estimated cost exceeds the cash, on_signal has left pending orders,     *)
(* cash and positions unchanged and has published no event.                *)
C12_BuyOverCashRejected ==
    BrokerWiring =>
      \A s \in SeqRange(log.signal) :
         (s.dir = "BUY" /\ s.est > s.before.cash) =>
            /\ s.after.pending = s.before.pending
            /\ s.after.cash = s.before.cash
            /\ s.after.qty = s.before.qty /\ s.after.cb = s.before.cb
            /\ s.published = 0

C12_Witness ==
    /\ BrokerWiring
    /\ \E s \in SeqRange(log.signal) :
         /\ s.dir = "BUY" /\ s.qty > 0 /\ s.est > s.before.cash
         /\ s.after = s.before

(* C13: on_signal has never changed cash, positions or NAV history; it has *)
(* either left the pending orders as they were or appended one order whose *)
(* id no pending order had.                                                *)
C13_OnSignalOnlyAddsPending ==
    BrokerWiring =>
      \A s \in SeqRange(log.signal) :
         /\ s.after.cash = s.before.cash
         /\ s.after.qty = s.before.qty /\ s.after.cb = s.before.cb
         /\ s.after.nav = s.before.nav /\ s.after.navTs = s.before.navTs
         /\ \/ s.after.pending = s.before.pending
            \/ /\ Len(s.after.pending) = Len(s.before.pending) + 1
               /\ SubSeq(s.after.pending, 1, Len(s.before.pending))
                    = s.before.pending
               /\ Count(s.before.pending,
                        s.after.pending[Len(s.after.pending)].id) = 0

C13_Witness ==
    /\ BrokerWiring
    /\ \E s \in SeqRange(log.signal) :
         /\ s.before.qty["A"] > 0 /\ s.before.pending # <<>>
         /\ Len(s.after.pending) = Len(s.before.pending) + 1

(* C16: every step leaves the entries nav_history has in place and adds at *)
(* most new ones at the end, and the timestamps of the entries increase    *)
(* strictly.                                                               *)
C16_NavHistoryAppendOnly ==
    [][BrokerWiring =>
         /\ Len(broker'.nav) >= Len(broker.nav)
         /\ SubSeq(broker'.nav, 1, Len(broker.nav)) = broker.nav
         /\ \A i, j \in 1..Len(broker'.nav) :
              i < j => broker'.nav[i].ts < broker'.nav[j].ts]_vars

C16_Witness ==
    /\ BrokerWiring
    /\ feed.done /\ ready = <<>> /\ queue = <<>>
    /\ Len(broker.nav) >= 2 /\ Len(broker.nav) < feed.index
    /\ broker.nav[1].value # broker.nav[Len(broker.nav)].value

----------------------------------------------------------------------------
(* src/trader: EventEngine (base/event_engine.py), CSVDataSource and the   *)
(* components run_backtest and Backtester register.  Every handler is a    *)
(* plain function, so _process_event calls them in line.                   *)

EngineWiring == feed.kind = "csv"

SourceTask == Task("source", "", NoEvent)
LoopTask == Task("loop", "", NoEvent)

(* BacktestExecution.handle_market_data: the pending orders of the event's *)
(* symbol are popped and one FillEvent is put for each, at the open price. *)
RECURSIVE EngFills(_, _)
EngFills(orders, ev) ==
    IF orders = <<>> THEN <<>>
    ELSE (IF Head(orders).sym = ev.sym
          THEN <<FillEvent(Head(orders), ev.open, 0, ev.ts, ev.cause)>>
          ELSE <<>>) \o EngFills(Tail(orders), ev)

RECURSIVE EngOtherSymbols(_, _)
EngOtherSymbols(orders, sym) ==
    IF orders = <<>> THEN <<>>
    ELSE (IF Head(orders).sym = sym THEN <<>> ELSE <<Head(orders)>>)
           \o EngOtherSymbols(Tail(orders), sym)

(* BasicPortfolioManager.on_event: _emit_portfolio_update puts one         *)
(* PortfolioUpdateEvent for a FillEvent and one for a MarketEvent.         *)
(* `e.updates` tells whether the portfolio manager registered is one that  *)
(* emits them.                                                             *)
EngUpdates(e, ev) ==
    IF e.updates /\ ev.type \in {"MARKET", "FILL"}
    THEN <<PortfolioUpdateEvent(ev.ts, ev.cause)>> ELSE <<>>

(* Handlers among which one answers every PortfolioUpdateEvent with       *)
(* another PortfolioUpdateEvent.                                           *)
EngHandlerPutsUpdateLoop(e, ev, order) ==
    CASE ev.type = "MARKET" ->
           EngUpdates(e, ev) \o EngFills(e.pending, ev) \o order
      [] ev.type = "FILL" -> EngUpdates(e, ev)
      [] ev.type = "PORTFOLIO_UPDATE" /\ e.updates ->
           <<PortfolioUpdateEvent(ev.ts, ev.cause)>>
      [] OTHER -> <<>>

(* EventEngine._process_event with synchronous handlers: the handlers      *)
(* registered for the event's type in registration order (portfolio        *)
(* manager, data handler, execution), then the general handler             *)
(* (Strategy.handle_event).  `order` is what the strategy's on_market_data *)
(* puts: an order sequence, possibly empty.                                *)
EngHandlerPuts(e, ev, order) ==
    CASE ev.type = "MARKET" ->
           EngUpdates(e, ev) \o EngFills(e.pending, ev) \o order
      [] ev.type = "FILL" -> EngUpdates(e, ev)
      [] OTHER -> <<>>

EngAfterHandlers(e, ev) ==
    CASE ev.type = "MARKET" ->
           [e EXCEPT !.pending = EngOtherSymbols(@, ev.sym), !.handled = @ + 1]
      [] ev.type = "ORDER" ->
           [e EXCEPT !.pending = Append(@, ev), !.handled = @ + 1]
      [] ev.type = "FILL" ->
           [e EXCEPT !.position[ev.sym] =
                        IF ev.dir = "BUY" THEN @ + ev.qty ELSE @ - ev.qty,
                     !.handled = @ + 1]
      [] OTHER -> [e EXCEPT !.handled = @ + 1]

(* The orders Strategy.on_market_data may put for a market event. *)
EngStrategyOrders(ev) ==
    IF ev.type # "MARKET" THEN {<<>>}
    ELSE {<<>>} \cup
         {<<OrderEvent(nextId, ev.sym, d, 1, ev.cause, ev.ts)>> :
            d \in {"BUY", "SELL"}}

(* The loop condition of run_sync_cycle_async: `while not queue.empty()`.  *)
DrainOnlyFirst(f, q) == q # <<>> /\ f.drained = 0

DrainContinues(f, q) == q # <<>>

(* One _process_event call on the event at the head of the queue, with     *)
(* the puts its handlers make; `rest` is the ready queue afterwards.       *)
EngProcess(ev, q, rest) ==
    \E order \in EngStrategyOrders(ev) :
       LET puts == EngHandlerPuts(engine, ev, order) IN
       /\ engine' = [EngAfterHandlers(engine, ev) EXCEPT
                       !.put = @ + Len(puts)]
       /\ queue' = PublishAll(q, puts)
       /\ ready' = IF puts # <<>> /\ getterWaits THEN Append(rest, LoopTask)
                   ELSE rest
       /\ getterWaits' = IF puts # <<>> THEN FALSE ELSE getterWaits
       /\ nextId' = nextId + Len(order)
       /\ log' = [log EXCEPT !.dispatched = Append(@, ev),
                             !.published = @ \o puts]

(* CSVDataSource._run_generator_loop: put the MarketEvent of the next row; *)
(* in backtest mode go on into run_sync_cycle_async, else sleep(0).        *)
SourcePut ==
    /\ EngineWiring /\ HeadIs("source", "")
    /\ feed.pc = "loop" /\ feed.index < EngineBars
    /\ \E sym \in Symbols :
         LET ev == MarketEvent(sym, feed.index + 1, 1, 1, feed.index + 1) IN
         /\ queue' = Append(queue, ev)
         /\ log' = [log EXCEPT !.published = Append(@, ev)]
    /\ unfinished' = unfinished + 1
    /\ engine' = [engine EXCEPT !.put = @ + 1]
    /\ feed' = [feed EXCEPT !.index = @ + 1,
                            !.pc = IF engine.mode = "backtest" THEN "drain"
                                   ELSE "loop",
                            !.drained = 0]
    /\ ready' = IF engine.mode = "backtest" THEN ready
                ELSE Append(Tail(ready)
                              \o (IF getterWaits THEN <<LoopTask>> ELSE <<>>),
                            SourceTask)
    /\ getterWaits' = FALSE
    /\ UNCHANGED <<joinWaiters, exec, pf, broker, nextId>>

(* run_sync_cycle_async, one iteration: get_nowait, _process_event,        *)
(* task_done.                                                              *)
DrainStep ==
    /\ EngineWiring /\ HeadIs("source", "")
    /\ feed.pc = "drain" /\ DrainContinues(feed, queue)
    /\ EngProcess(Head(queue), Tail(queue), ready)
    /\ unfinished' = unfinished - 1 + (Len(queue') - Len(Tail(queue)))
    /\ feed' = [feed EXCEPT !.drained = @ + 1]
    /\ UNCHANGED <<joinWaiters, exec, pf, broker>>

(* run_sync_cycle_async returns; the loop goes to the next row, or the     *)
(* generator task ends after _signal_completion.                           *)
DrainReturn ==
    /\ EngineWiring /\ HeadIs("source", "")
    /\ feed.pc = "drain" /\ ~DrainContinues(feed, queue)
    /\ feed' = [feed EXCEPT !.pc = IF feed.final THEN "done" ELSE "loop"]
    /\ engine' = [engine EXCEPT !.drains = @ + 1]
    /\ ready' = IF feed.final THEN Tail(ready) ELSE ready
    /\ UNCHANGED <<queue, unfinished, getterWaits, joinWaiters, exec, pf,
                   broker, nextId, log>>

(* IDataSource._signal_completion after the last row. *)
SourceComplete ==
    /\ EngineWiring /\ HeadIs("source", "")
    /\ feed.pc = "loop" /\ feed.index = EngineBars
    /\ queue' = Append(queue, SystemEvent(feed.index))
    /\ log' = [log EXCEPT !.published = Append(@, SystemEvent(feed.index))]
    /\ unfinished' = unfinished + 1
    /\ engine' = [engine EXCEPT !.put = @ + 1]
    /\ feed' = [feed EXCEPT !.final = TRUE, !.drained = 0,
                            !.pc = IF engine.mode = "backtest" THEN "drain"
                                   ELSE "done"]
    /\ ready' = IF engine.mode = "backtest" THEN ready
                ELSE Tail(ready) \o (IF getterWaits THEN <<LoopTask>> ELSE <<>>)
    /\ getterWaits' = FALSE
    /\ UNCHANGED <<joinWaiters, exec, pf, broker, nextId>>

(* EventEngine._run_live_loop, one iteration: get an event, create a task  *)
(* for _process_event without awaiting it, task_done.  Whether the loop    *)
(* yields before the next get depends on asyncio.wait_for.                 *)
LiveLoopStep ==
    /\ EngineWiring /\ HeadIs("loop", "")
    /\ queue # <<>>
    /\ queue' = Tail(queue)
    /\ unfinished' = unfinished - 1
    /\ \E yields \in BOOLEAN :
         ready' = IF yields
                  THEN Tail(ready) \o <<Task("proc", "", Head(queue)), LoopTask>>
                  ELSE <<LoopTask>> \o Tail(ready)
                         \o <<Task("proc", "", Head(queue))>>
    /\ UNCHANGED <<getterWaits, joinWaiters, feed, exec, pf, broker, engine,
                   nextId, log>>

(* The live loop finds the queue empty and waits in queue.get(). *)
LiveLoopWait ==
    /\ EngineWiring /\ HeadIs("loop", "")
    /\ queue = <<>>
    /\ getterWaits' = TRUE
    /\ ready' = Tail(ready)
    /\ UNCHANGED <<queue, unfinished, joinWaiters, feed, exec, pf, broker,
                   engine, nextId, log>>

(* A task the live loop created runs _process_event. *)
LiveProcess ==
    /\ EngineWiring /\ HeadIs("proc", "")
    /\ EngProcess(Head(ready).ev, queue, Tail(ready))
    /\ unfinished' = unfinished + (Len(queue') - Len(queue))
    /\ UNCHANGED <<joinWaiters, feed, exec, pf, broker>>

(* After `await engine.start()` and the creation of the generator task:    *)
(* in live mode (run_backtest builds EventEngine() with the default mode)  *)
(* the main loop task is runnable ahead of the generator; in backtest mode *)
(* (Backtester builds EventEngine(mode='backtest')) there is no loop task. *)
InitEngine ==
    /\ \E mode \in {"backtest", "live"} :
         /\ engine = [EngineInit(mode) EXCEPT !.active = TRUE]
         /\ ready = IF mode = "live" THEN <<LoopTask, SourceTask>>
                    ELSE <<SourceTask>>
    /\ queue = <<>>
    /\ unfinished = 0
    /\ getterWaits = FALSE
    /\ joinWaiters = <<>>
    /\ feed = [kind |-> "csv", index |-> 0, pc |-> "loop", final |-> FALSE,
               drained |-> 0]
    /\ exec = ExInit
    /\ pf = PfInit
    /\ broker = BrInit
    /\ nextId = 1
    /\ log = LogInit

NextEngine ==
    \/ SourcePut
    \/ DrainStep
    \/ DrainReturn
    \/ SourceComplete
    \/ LiveLoopStep
    \/ LiveLoopWait
    \/ LiveProcess

SpecEngine == InitEngine /\ [][NextEngine]_vars

(* What is queued, or handed to a _process_event task that has not run. *)
EngineInFlight ==
    SeqRange(queue) \cup {t.ev : t \in {x \in SeqRange(ready) : x.t = "proc"}}

(* C1: in backtest mode, whenever run_sync_cycle_async has returned to     *)
(* CSVDataSource the queue is empty and every event put so far has been    *)
(* handled, the events put by handlers included; so every event in flight  *)
(* was caused by the market event put last.                                *)
C1_DrainReturnsWhenAllHandled ==
    (EngineWiring /\ engine.mode = "backtest") =>
      /\ feed.pc \in {"loop", "done"} =>
           (queue = <<>> /\ engine.handled = engine.put)
      /\ \A e \in EngineInFlight : e.cause = feed.index

C1_Witness ==
    /\ EngineWiring /\ engine.mode = "backtest"
    /\ feed.pc = "loop" /\ feed.index >= 2
    /\ feed.drained >= 3
    /\ engine.drains = feed.index

(* C9: with the engine run_backtest builds, the data source has called the *)
(* drain once for every market event it has put before it goes on, and     *)
(* every event in flight was caused by the market event put last.          *)
C9_RunBacktestDrainsEveryMarketEvent ==
    (EngineWiring /\ engine.mode = "live") =>
      /\ feed.pc = "loop" => engine.drains = feed.index
      /\ \A e \in EngineInFlight : e.cause = feed.index

(* C17: the events the engine has dispatched are, in this order, the first *)
(* of the events published (by the data source and by handlers): no event  *)
(* is dispatched before one that was queued when it was published.         *)
C17_DispatchInPublishOrder ==
    EngineWiring =>
      /\ Len(log.dispatched) <= Len(log.published)
      /\ log.dispatched = SubSeq(log.published, 1, Len(log.dispatched))

C17_Witness ==
    /\ EngineWiring /\ engine.mode = "live"
    /\ \E i \in 1..Len(log.dispatched), j \in 1..Len(log.dispatched) :
         /\ i < j
         /\ log.dispatched[i].type = "MARKET"
         /\ log.dispatched[j].type = "ORDER"
         /\ log.dispatched[i].cause > log.dispatched[j].cause

----------------------------------------------------------------------------
(* src/trader_v2/components/combined.py: SimulatedExecutionHandler and     *)
(* BasePortfolio / MomentumPortfolio, on the EventBus with MockDataFeed.   *)
(* The handler's settlement is line for line the one of trader-v2, so the  *)
(* operators Ex... above are used for it.  combined.py reads               *)
(* DEFAULT_COMMISSION_RATE and DEFAULT_SLIPPAGE_PERCENT, which the package *)
(* defines in portfolio.py; they have those values here.                   *)

CombinedWiring == BusWiring /\ feed.pair = "combined"

(* BasePortfolio.__init__ *)
CbInit ==
    [cash |-> InitialCash * MoneyScale,
     qty |-> [s \in Symbols |-> 0], cb |-> [s \in Symbols |-> Rat(0, 1)],
     pending |-> {}, lastPrice |-> [s \in Symbols |-> NoPrice],
     nav |-> <<>>, navTs |-> NoTs]

(* BasePortfolio._estimate_order_cost for a MARKET order, in money units:  *)
(* slippage is applied to a BUY only.                                      *)
CbEstimateOrderCost(p, sym, dir, qty) ==
    LET last == PfLatestPrice(p, sym) IN
    IF qty <= 0 \/ last = NoPrice THEN 0
    ELSE IF dir = "BUY"
         THEN qty * last * (E3 + DEFAULT_SLIPPAGE_PERCENT_E3)
                  * (E4 + DEFAULT_COMMISSION_RATE_E4)
         ELSE IF dir = "SELL"
              THEN qty * last * E3 * (E4 - DEFAULT_COMMISSION_RATE_E4)
              ELSE 0

(* BasePortfolio._check_risk_before_order *)
CbCheckRisk(p, sym, dir, qty) ==
    /\ qty > 0
    /\ dir = "BUY" => /\ CbEstimateOrderCost(p, sym, dir, qty) > 0
                      /\ CbEstimateOrderCost(p, sym, dir, qty) <= p.cash
    /\ dir = "SELL" => qty <= p.qty[sym]

(* MomentumPortfolio.on_signal for LONG / SHORT, steps 2-5. *)
CbSizeOrder(p, sig) ==
    LET latest == PfLatestPrice(p, sig.sym)
        tv == PfTotalValue(p)
        den == WeightDen * latest * MoneyScale
        target == IF sig.dir = "LONG" THEN Max(0, tv * sig.w)
                  ELSE 0 - Max(0, tv * sig.w)
        num == target - p.qty[sig.sym] * den
        thr == 99 * LotSize * (den \div 100)
    IN  IF sig.dir \notin {"LONG", "SHORT"} \/ sig.w < 0 THEN <<"", 0>>
        ELSE IF latest = NoPrice THEN <<"", 0>>
        ELSE IF tv <= MoneyScale \div (E3 * E3) THEN <<"", 0>>
        ELSE IF num > thr THEN <<"BUY", (num \div (den * LotSize)) * LotSize>>
        ELSE IF num < 0 - thr
             THEN <<"SELL", ((0 - num) \div (den * LotSize)) * LotSize>>
        ELSE <<"", 0>>

(* BasePortfolio._update_state_from_fill, the BUY branch: blocked when the *)
(* cost exceeds the cash.                                                  *)
CbApplyBuy(p, fill) ==
    LET cost == fill.qty * fill.price * E3 + fill.commission
        cur == p.qty[fill.sym]
        new == cur + fill.qty
        cb == p.cb[fill.sym]
    IN  IF cost > p.cash THEN p
        ELSE [p EXCEPT
                !.cash = @ - cost,
                !.qty[fill.sym] = new,
                !.cb[fill.sym] =
                    IF new > 0
                    THEN Rat(cur * cb.n + fill.qty * fill.price * cb.d,
                             cb.d * new)
                    ELSE IF new = 0 THEN Rat(0, 1) ELSE @]

(* The SELL branch: the quantity is cut to the current position. *)
CbApplySell(p, fill) ==
    LET cur == p.qty[fill.sym]
        filled == IF fill.qty > cur THEN cur ELSE fill.qty
        new == cur - filled
    IN  [p EXCEPT
           !.cash = @ + (filled * fill.price * E3 - fill.commission),
           !.qty[fill.sym] = new,
           !.cb[fill.sym] = IF new <= 0 THEN Rat(0, 1) ELSE @]

CbUpdateStateFromFill(p, fill) ==
    LET q == [p EXCEPT !.pending = {o \in @ : o.id # fill.id}] IN
    IF fill.qty <= 0 \/ fill.price <= 0 THEN p
    ELSE IF fill.dir = "BUY" THEN CbApplyBuy(q, fill)
    ELSE IF fill.dir = "SELL" THEN CbApplySell(q, fill)
    ELSE q

(* BasePortfolio._record_nav *)
CbRecordNav(p, ts) ==
    IF p.navTs # NoTs /\ ts <= p.navTs THEN p
    ELSE [p EXCEPT !.nav = Append(@, [ts |-> ts, value |-> PfTotalValue(p)]),
                   !.navTs = ts]

(* nav_history[ts], or NoPrice when the timestamp has no entry. *)
CbNavAt(p, ts) ==
    LET at == {i \in 1..Len(p.nav) : p.nav[i].ts = ts} IN
    IF at = {} THEN NoPrice ELSE p.nav[CHOOSE i \in at : TRUE].value

(* BasePortfolio._on_market_event: the price update, then _record_nav. *)
CbOnMarketEvent ==
    /\ CombinedWiring /\ HeadIs("handler", "cb_market")
    /\ LET ev == Head(ready).ev
           p == IF ev.close > 0 THEN [pf EXCEPT !.lastPrice[ev.sym] = ev.close]
                ELSE pf
       IN  pf' = CbRecordNav(p, ev.ts)
    /\ ready' = Tail(ready)
    /\ UNCHANGED <<queue, unfinished, getterWaits, joinWaiters, feed, exec,
                   broker, engine, nextId, log>>

(* BasePortfolio._on_signal_event with MomentumPortfolio.on_signal and     *)
(* _generate_flat_order.                                                   *)
CbOnSignal ==
    /\ CombinedWiring /\ HeadIs("handler", "cb_signal")
    /\ LET sig == Head(ready).ev
           want == IF sig.dir = "FLAT" THEN PfFlatOrder(pf, sig.sym)
                   ELSE CbSizeOrder(pf, sig)
           order == OrderEvent(nextId, sig.sym, want[1], want[2], sig.cause,
                               sig.srcTs)
           accepted == CbCheckRisk(pf, sig.sym, want[1], want[2])
       IN  /\ pf' = IF accepted THEN [pf EXCEPT !.pending = @ \cup {order}]
                    ELSE pf
           /\ nextId' = IF accepted THEN nextId + 1 ELSE nextId
           /\ Publish(IF accepted THEN <<order>> ELSE <<>>, Tail(ready))
    /\ UNCHANGED <<joinWaiters, feed, exec, broker, engine, log>>

(* SimulatedExecutionHandler.on_order_event *)
CbExOnOrderEvent ==
    /\ CombinedWiring /\ HeadIs("handler", "cb_order")
    /\ exec' = [exec EXCEPT !.pending = Append(@, Head(ready).ev)]
    /\ ready' = Tail(ready)
    /\ UNCHANGED <<queue, unfinished, getterWaits, joinWaiters, feed, pf,
                   broker, engine, nextId, log>>

(* SimulatedExecutionHandler.on_market_event *)
CbExOnMarketEvent ==
    /\ CombinedWiring /\ HeadIs("handler", "cb_settle")
    /\ LET ev == Head(ready).ev
           fills == IF ExIsNewTimeStep(exec, ev)
                    THEN ExFills(exec, ev, exec.pending) ELSE <<>>
       IN  /\ exec' = IF ExIsNewTimeStep(exec, ev)
                      THEN [pending |-> ExRemaining(exec, ev, exec.pending),
                            lastTs |-> ev.ts]
                      ELSE exec
           /\ Publish(fills, Tail(ready))
    /\ UNCHANGED <<joinWaiters, feed, pf, broker, engine, nextId, log>>

(* BasePortfolio._on_fill_event: _update_state_from_fill, on_fill (which   *)
(* only logs), _record_nav.  The history keeps the last fill handled: the  *)
(* cash before and after, and nav_history[fill.timestamp] and the total    *)
(* value when the handler returns.                                         *)
CbOnFillEvent ==
    /\ CombinedWiring /\ HeadIs("handler", "cb_fill")
    /\ LET fill == Head(ready).ev
           p == CbRecordNav(CbUpdateStateFromFill(pf, fill), fill.ts)
       IN  /\ pf' = p
           /\ log' = [log EXCEPT !.applied =
                        <<[id |-> fill.id, dir |-> fill.dir, qty |-> fill.qty,
                           price |-> fill.price,
                           commission |-> fill.commission, ts |-> fill.ts,
                           cashBefore |-> pf.cash, cashAfter |-> p.cash,
                           qtyBefore |-> pf.qty[fill.sym],
                           qtyAfter |-> p.qty[fill.sym],
                           navAt |-> CbNavAt(p, fill.ts),
                           value |-> PfTotalValue(p)]>>]
    /\ ready' = Tail(ready)
    /\ UNCHANGED <<queue, unfinished, getterWaits, joinWaiters, feed, exec,
                   broker, engine, nextId>>

InitCombined ==
    /\ ready = <<FeedTask>>
    /\ queue = <<>>
    /\ unfinished = 0
    /\ getterWaits = TRUE
    /\ joinWaiters = <<>>
    /\ feed = MockFeedInit("combined")
    /\ exec = ExInit
    /\ pf = CbInit
    /\ broker = BrInit
    /\ engine = EngineInit("none")
    /\ nextId = 1
    /\ log = LogInit

NextCombined ==
    \/ FeedPublish
    \/ FeedFinish
    \/ BusStep
    \/ StrategyOnMarket
    \/ FeedHandleBacktestEnd
    \/ CbOnMarketEvent
    \/ CbOnSignal
    \/ CbExOnOrderEvent
    \/ CbExOnMarketEvent
    \/ CbOnFillEvent

SpecCombined == InitCombined /\ [][NextCombined]_vars

----------------------------------------------------------------------------
(* src/trader: the event engines with any handlers registered for one      *)
(* event type.  A handler is a plain function or a coroutine function, it  *)
(* may raise, and a coroutine may suspend at an await that completes at    *)
(* any later time.  The asyncio engine (base/event_engine.py) runs in      *)
(* backtest or live mode; the threaded engine (event_engine.py) calls      *)
(* every handler as a plain function.                                      *)

RegistryWiring == feed.kind = "registry"

HandlerNames == <<"h1", "h2", "h3">>

HandlerIndex(name) == CHOOSE i \in 1..Len(HandlerNames) : HandlerNames[i] = name

HandlerShapes ==
    {h \in [co : BOOLEAN, raises : BOOLEAN, suspends : BOOLEAN] :
       h.suspends => h.co}

RegEvent(n) == MarketEvent("A", n, 1, 1, n)

(* EventEngine.__init__ followed by register() for each handler. *)
RegEngineInit(mode, hs) ==
    [mode |-> mode, active |-> FALSE, handlers |-> hs,
     gather |-> [n \in 1..RegEvents |-> 0], waiting |-> {}]

Mark(k, ev, i) == [k |-> k, ev |-> ev.cause, h |-> i]

NextAfterRaiseAbort(i, n) == n + 1

(* `except Exception` around each handler call: the loop over the handlers *)
(* goes on with the next handler.                                          *)
NextAfterRaise(i, n) == i + 1

(* The loop of _process_event (and of the threaded _run) over a copy of    *)
(* the handler list, from handler i on: a coroutine function gets a task,  *)
(* a plain function is called in line.  Gives the begin and end marks of   *)
(* the calls made in line and the tasks created.                           *)
RECURSIVE RegDispatch(_, _, _)
RegDispatch(hs, i, ev) ==
    IF i > Len(hs) THEN [trace |-> <<>>, tasks |-> <<>>]
    ELSE IF hs[i].co
         THEN LET r == RegDispatch(hs, i + 1, ev) IN
              [trace |-> r.trace,
               tasks |-> <<Task("co", HandlerNames[i], ev)>> \o r.tasks]
         ELSE LET r == RegDispatch(hs, IF hs[i].raises
                                       THEN NextAfterRaise(i, Len(hs))
                                       ELSE i + 1, ev) IN
              [trace |-> <<Mark("begin", ev, i), Mark("end", ev, i)>>
                           \o r.trace,
               tasks |-> r.tasks]

(* A producer like CSVDataSource._run_generator_loop: put the next event;  *)
(* in backtest mode go on into run_sync_cycle_async, else sleep(0).        *)
RegSourcePut ==
    /\ RegistryWiring /\ engine.mode # "thread" /\ HeadIs("source", "")
    /\ feed.pc = "loop" /\ feed.index < RegEvents
    /\ queue' = Append(queue, RegEvent(feed.index + 1))
    /\ unfinished' = unfinished + 1
    /\ feed' = [feed EXCEPT !.index = @ + 1,
                            !.pc = IF engine.mode = "backtest" THEN "drain"
                                   ELSE "loop"]
    /\ ready' = IF engine.mode = "backtest" THEN ready
                ELSE Append(Tail(ready)
                              \o (IF getterWaits THEN <<LoopTask>> ELSE <<>>),
                            SourceTask)
    /\ getterWaits' = FALSE
    /\ UNCHANGED <<joinWaiters, exec, pf, broker, engine, nextId, log>>

(* The producer has put its last event and ends. *)
RegSourceDone ==
    /\ RegistryWiring /\ engine.mode # "thread" /\ HeadIs("source", "")
    /\ feed.pc = "loop" /\ feed.index = RegEvents
    /\ feed' = [feed EXCEPT !.pc = "done"]
    /\ ready' = Tail(ready)
    /\ UNCHANGED <<queue, unfinished, getterWaits, joinWaiters, exec, pf,
                   broker, engine, nextId, log>>

(* run_sync_cycle_async, one iteration: get_nowait and _process_event up   *)
(* to its gather; without handler tasks it returns at once and task_done   *)
(* follows, else the caller waits in gather.                               *)
RegDrainStep ==
    /\ RegistryWiring /\ HeadIs("source", "")
    /\ feed.pc = "drain" /\ queue # <<>>
    /\ LET ev == Head(queue)
           d == RegDispatch(engine.handlers, 1, ev)
       IN  /\ queue' = Tail(queue)
           /\ log' = [log EXCEPT !.trace = @ \o d.trace]
           /\ engine' = [engine EXCEPT !.gather[ev.cause] = Len(d.tasks)]
           /\ ready' = IF d.tasks = <<>> THEN ready ELSE Tail(ready) \o d.tasks
           /\ feed' = [feed EXCEPT !.pc = IF d.tasks = <<>> THEN "drain"
                                          ELSE "gather"]
           /\ unfinished' = IF d.tasks = <<>> THEN unfinished - 1
                            ELSE unfinished
    /\ UNCHANGED <<getterWaits, joinWaiters, exec, pf, broker, nextId>>

(* gather has returned: _process_event returns, then task_done. *)
RegDrainResume ==
    /\ RegistryWiring /\ HeadIs("source", "")
    /\ feed.pc = "gathered"
    /\ feed' = [feed EXCEPT !.pc = "drain"]
    /\ unfinished' = unfinished - 1
    /\ UNCHANGED <<ready, queue, getterWaits, joinWaiters, exec, pf, broker,
                   engine, nextId, log>>

(* run_sync_cycle_async finds the queue empty and returns. *)
RegDrainReturn ==
    /\ RegistryWiring /\ HeadIs("source", "")
    /\ feed.pc = "drain" /\ queue = <<>>
    /\ feed' = [feed EXCEPT !.pc = "loop"]
    /\ UNCHANGED <<ready, queue, unfinished, getterWaits, joinWaiters, exec,
                   pf, broker, engine, nextId, log>>

(* _run_live_loop, one iteration: get an event, create a task for          *)
(* _process_event without awaiting it, task_done.  Whether the loop yields *)
(* before the next get depends on asyncio.wait_for.                        *)
RegLiveLoopStep ==
    /\ RegistryWiring /\ HeadIs("loop", "")
    /\ queue # <<>>
    /\ queue' = Tail(queue)
    /\ unfinished' = unfinished - 1
    /\ \E yields \in BOOLEAN :
         ready' = IF yields
                  THEN Tail(ready) \o <<Task("proc", "", Head(queue)), LoopTask>>
                  ELSE <<LoopTask>> \o Tail(ready)
                         \o <<Task("proc", "", Head(queue))>>
    /\ UNCHANGED <<getterWaits, joinWaiters, feed, exec, pf, broker, engine,
                   nextId, log>>

(* The live loop finds the queue empty and waits in queue.get(). *)
RegLiveLoopWait ==
    /\ RegistryWiring /\ HeadIs("loop", "")
    /\ queue = <<>>
    /\ getterWaits' = TRUE
    /\ ready' = Tail(ready)
    /\ UNCHANGED <<queue, unfinished, joinWaiters, feed, exec, pf, broker,
                   engine, nextId, log>>

(* A task the live loop created runs _process_event up to its gather. *)
RegLiveProcess ==
    /\ RegistryWiring /\ HeadIs("proc", "")
    /\ LET ev == Head(ready).ev
           d == RegDispatch(engine.handlers, 1, ev)
       IN  /\ log' = [log EXCEPT !.trace = @ \o d.trace]
           /\ engine' = [engine EXCEPT !.gather[ev.cause] = Len(d.tasks)]
           /\ ready' = Tail(ready) \o d.tasks
    /\ UNCHANGED <<queue, unfinished, getterWaits, joinWaiters, feed, exec,
                   pf, broker, nextId>>

(* A handler task ends, by returning or by raising (gather is called with  *)
(* return_exceptions=True): when it is the last one of its event, gather   *)
(* returns, which in backtest mode makes the producer runnable again.      *)
RegTaskEnds(ev, rest) ==
    LET last == engine.gather[ev.cause] = 1 IN
    /\ ready' = IF last /\ engine.mode = "backtest"
                THEN Append(rest, SourceTask) ELSE rest
    /\ feed' = IF last /\ engine.mode = "backtest"
               THEN [feed EXCEPT !.pc = "gathered"] ELSE feed

(* A handler task starts running its coroutine: it runs to the end, or to  *)
(* the await where it suspends.                                            *)
RegHandlerStart ==
    /\ RegistryWiring /\ ready # <<>> /\ Head(ready).t = "co"
    /\ LET ev == Head(ready).ev
           i == HandlerIndex(Head(ready).h)
       IN  IF engine.handlers[i].suspends
           THEN /\ log' = [log EXCEPT !.trace = Append(@, Mark("begin", ev, i))]
                /\ engine' = [engine EXCEPT
                                !.waiting = @ \cup {[h |-> i, ev |-> ev]}]
                /\ ready' = Tail(ready)
                /\ UNCHANGED feed
           ELSE /\ log' = [log EXCEPT !.trace =
                             @ \o <<Mark("begin", ev, i), Mark("end", ev, i)>>]
                /\ engine' = [engine EXCEPT !.gather[ev.cause] = @ - 1]
                /\ RegTaskEnds(ev, Tail(ready))
    /\ UNCHANGED <<queue, unfinished, getterWaits, joinWaiters, exec, pf,
                   broker, nextId>>

(* What a suspended handler awaits completes: its task is runnable again. *)
RegHandlerWake ==
    /\ RegistryWiring
    /\ \E w \in engine.waiting :
         /\ engine' = [engine EXCEPT !.waiting = @ \ {w}]
         /\ ready' = Append(ready, Task("co2", HandlerNames[w.h], w.ev))
    /\ UNCHANGED <<queue, unfinished, getterWaits, joinWaiters, feed, exec,
                   pf, broker, nextId, log>>

(* A resumed handler runs to its end. *)
RegHandlerResume ==
    /\ RegistryWiring /\ ready # <<>> /\ Head(ready).t = "co2"
    /\ LET ev == Head(ready).ev
           i == HandlerIndex(Head(ready).h)
       IN  /\ log' = [log EXCEPT !.trace = Append(@, Mark("end", ev, i))]
           /\ engine' = [engine EXCEPT !.gather[ev.cause] = @ - 1]
           /\ RegTaskEnds(ev, Tail(ready))
    /\ UNCHANGED <<queue, unfinished, getterWaits, joinWaiters, exec, pf,
                   broker, nextId>>

(* Threaded engine: another thread calls put(). *)
RegThreadPut ==
    /\ RegistryWiring /\ engine.mode = "thread"
    /\ feed.index < RegEvents
    /\ queue' = Append(queue, RegEvent(feed.index + 1))
    /\ feed' = [feed EXCEPT !.index = @ + 1,
                            !.pc = IF feed.index + 1 = RegEvents THEN "done"
                                   ELSE "loop"]
    /\ UNCHANGED <<ready, unfinished, getterWaits, joinWaiters, exec, pf,
                   broker, engine, nextId, log>>

(* Threaded engine, one iteration of _run: get an event and call every     *)
(* handler, each in its own try.                                           *)
RegThreadRun ==
    /\ RegistryWiring /\ engine.mode = "thread" /\ engine.active
    /\ queue # <<>>
    /\ queue' = Tail(queue)
    /\ log' = [log EXCEPT !.trace =
                 @ \o RegDispatch(engine.handlers, 1, Head(queue)).trace]
    /\ UNCHANGED <<ready, unfinished, getterWaits, joinWaiters, feed, exec,
                   pf, broker, engine, nextId>>

(* After start(): the asyncio engine with the producer task created (and   *)
(* in live mode the main loop task ahead of it), or the threaded engine    *)
(* with its thread running.                                                *)
InitRegistry ==
    /\ \E mode \in {"backtest", "live", "thread"} :
       \E hs \in [1..RegHandlers -> HandlerShapes] :
         /\ mode = "thread" => \A i \in 1..RegHandlers : ~hs[i].co
         /\ engine = [RegEngineInit(mode, hs) EXCEPT !.active = TRUE]
         /\ ready = CASE mode = "live" -> <<LoopTask, SourceTask>>
                      [] mode = "backtest" -> <<SourceTask>>
                      [] OTHER -> <<>>
    /\ queue = <<>>
    /\ unfinished = 0
    /\ getterWaits = FALSE
    /\ joinWaiters = <<>>
    /\ feed = [kind |-> "registry", index |-> 0, pc |-> "loop"]
    /\ exec = ExInit
    /\ pf = PfInit
    /\ broker = BrInit
    /\ nextId = 1
    /\ log = LogInit

NextRegistry ==
    \/ RegSourcePut
    \/ RegSourceDone
    \/ RegDrainStep
    \/ RegDrainResume
    \/ RegDrainReturn
    \/ RegLiveLoopStep
    \/ RegLiveLoopWait
    \/ RegLiveProcess
    \/ RegHandlerStart
    \/ RegHandlerWake
    \/ RegHandlerResume
    \/ RegThreadPut
    \/ RegThreadRun

SpecRegistry == InitRegistry /\ [][NextRegistry]_vars

(* Whether, and where, the trace holds a mark. *)
Marked(k, n, i) ==
    \E p \in 1..Len(log.trace) : log.trace[p] = [k |-> k, ev |-> n, h |-> i]

MarkPos(k, n, i) ==
    CHOOSE p \in 1..Len(log.trace) : log.trace[p] = [k |-> k, ev |-> n, h |-> i]

(* C18: in the asyncio engine, for every event, a handler has begun only   *)
(* after every handler registered before it has begun.                     *)
C18_HandlersStartInRegistrationOrder ==
    (RegistryWiring /\ engine.mode # "thread") =>
      \A n \in 1..RegEvents : \A i \in 1..RegHandlers : \A j \in 1..RegHandlers :
         (i < j /\ Marked("begin", n, j)) =>
            /\ Marked("begin", n, i)
            /\ MarkPos("begin", n, i) < MarkPos("begin", n, j)

(* Every event has been put and nothing is queued, runnable or suspended. *)
RegQuiescent ==
    /\ feed.pc = "done" /\ feed.index = RegEvents
    /\ queue = <<>> /\ ready = <<>> /\ engine.waiting = {}

(* C19: whatever handlers raise, the engine stays active, in live mode the *)
(* main loop is runnable or waiting for the next event, and once all the   *)
(* work is done every handler has been invoked for every event.            *)
C19_RaiseDoesNotStopDispatch ==
    RegistryWiring =>
      /\ engine.active
      /\ engine.mode = "live" =>
           (getterWaits \/ \E p \in 1..Len(ready) : ready[p].t = "loop")
      /\ RegQuiescent =>
           \A n \in 1..RegEvents : \A i \in 1..RegHandlers :
              Marked("begin", n, i)

C19_Witness ==
    /\ RegistryWiring /\ RegQuiescent
    /\ engine.handlers[1].raises /\ ~engine.handlers[1].co
    /\ \A n \in 1..RegEvents : \A i \in 1..RegHandlers :
          Marked("begin", n, i) /\ Marked("end", n, i)

(* C20: in live mode a handler begins an event only after its invocation   *)
(* for every event published earlier has ended.                            *)
C20_HandlerInvocationsDoNotOverlap ==
    (RegistryWiring /\ engine.mode = "live") =>
      \A i \in 1..RegHandlers : \A m \in 1..RegEvents : \A n \in 1..RegEvents :
         (m < n /\ Marked("begin", n, i)) =>
            /\ Marked("end", m, i)
            /\ MarkPos("end", m, i) < MarkPos("begin", n, i)

----------------------------------------------------------------------------
(* trader-v2: EventBus.run, stop() and the cancellation of the run task    *)
(* (src/trader-v2/core/event_bus.py), with one listener subscribed.  Any   *)
(* task may publish an event at any time; main() calls stop(), or cancels  *)
(* the run task once as sample.py does.  `engine` holds the bus: _running, *)
(* the position of run(), the number of tasks in _processing_tasks, and    *)
(* what was queued and dispatched when stop() or cancel() was called.      *)

StopWiring == feed.kind = "lifecycle"

(* subscribe(): one handler listens to the events published. *)
StopListeners ==
    [t \in EventTypes |-> IF t = "MARKET" THEN <<"h">> ELSE <<>>]

(* EventBus.__init__ and create_task(bus.run()). *)
BusInit ==
    [mode |-> "bus", running |-> FALSE, pc |-> "new", tasks |-> 0,
     stopCalled |-> FALSE, stopReturned |-> FALSE, queuedAtStop |-> <<>>,
     cancelled |-> FALSE, dispatchedAtCancel |-> 0, tasksAtCancel |-> 0]

RunFinallySkipsGather(tasks) == "done"

(* The finally block of run(): gather the tasks still being processed. *)
RunFinally(tasks) == IF tasks > 0 THEN "gather" ELSE "done"

(* The number of events one activation of run() dispatches: the loop goes  *)
(* on while _running holds and the queue is not empty; when it resumes     *)
(* from get() it handles the event it got before it tests _running.        *)
RunTakes(q, running, resumed) ==
    IF q = <<>> THEN 0
    ELSE IF running THEN Len(q)
    ELSE IF resumed THEN 1 ELSE 0

(* EventBus.publish from any task. *)
StopEnvPublish ==
    /\ StopWiring /\ feed.index < StopEvents
    /\ Publish(<<MarketEvent("A", feed.index + 1, 1, 1, feed.index + 1)>>,
               ready)
    /\ feed' = [feed EXCEPT !.index = @ + 1]
    /\ UNCHANGED <<joinWaiters, exec, pf, broker, engine, nextId, log>>

(* One activation of run(): its start, or its resumption from get(); a     *)
(* cancellation requested meanwhile is raised there and breaks the loop.   *)
(* After the loop comes the finally block.                                 *)
StopBusRun ==
    /\ StopWiring /\ HeadIs("bus", "")
    /\ engine.pc \in {"new", "loop"}
    /\ IF engine.cancelled
       THEN /\ engine' = [engine EXCEPT
                            !.running = FALSE,
                            !.pc = IF engine.pc = "new" THEN "done"
                                   ELSE RunFinally(engine.tasks)]
            /\ ready' = Tail(ready)
            /\ UNCHANGED <<queue, unfinished, getterWaits, joinWaiters, log>>
       ELSE LET running == engine.pc = "new" \/ engine.running
                k == RunTakes(queue, running, engine.pc = "loop")
                taken == SubSeq(queue, 1, k)
                made == DispatchAll(taken, StopListeners)
                joined == k > 0 /\ unfinished = k
                exits == ~running
            IN  /\ queue' = SubSeq(queue, k + 1, Len(queue))
                /\ unfinished' = unfinished - k
                /\ ready' = Tail(ready) \o made
                              \o (IF joined THEN WakeAll(joinWaiters)
                                  ELSE <<>>)
                /\ joinWaiters' = IF joined THEN <<>> ELSE joinWaiters
                /\ getterWaits' = ~exits
                /\ engine' = [engine EXCEPT
                                !.running = running,
                                !.tasks = @ + Len(made),
                                !.pc = IF exits
                                       THEN RunFinally(engine.tasks + Len(made))
                                       ELSE "loop"]
                /\ log' = [log EXCEPT !.dispatched = @ \o taken]
    /\ UNCHANGED <<feed, exec, pf, broker, nextId>>

(* A handler task suspends at an await of its coroutine and is runnable    *)
(* again behind the tasks that are runnable now.                           *)
StopHandlerYields ==
    /\ StopWiring /\ HeadIs("handler", "h")
    /\ ready' = Append(Tail(ready), Task("handler", "h2", Head(ready).ev))
    /\ UNCHANGED <<queue, unfinished, getterWaits, joinWaiters, feed, exec,
                   pf, broker, engine, nextId, log>>

(* A handler task runs to its end; the last one ends the gather of run(). *)
StopHandlerRuns ==
    /\ StopWiring /\ ready # <<>> /\ Head(ready).t = "handler"
    /\ engine' = [engine EXCEPT !.tasks = @ - 1]
    /\ ready' = IF engine.pc = "gather" /\ engine.tasks = 1
                THEN Append(Tail(ready), BusTask) ELSE Tail(ready)
    /\ UNCHANGED <<queue, unfinished, getterWaits, joinWaiters, feed, exec,
                   pf, broker, nextId, log>>

(* run() returns after its gather. *)
StopBusGathered ==
    /\ StopWiring /\ HeadIs("bus", "")
    /\ engine.pc = "gather"
    /\ engine' = [engine EXCEPT !.pc = "done"]
    /\ ready' = Tail(ready)
    /\ UNCHANGED <<queue, unfinished, getterWaits, joinWaiters, feed, exec,
                   pf, broker, nextId, log>>

(* EventBus.stop: _running = False, then `await self._queue.join()`, which *)
(* returns at once when no task is unfinished.                             *)
StopCall ==
    /\ StopWiring /\ ~engine.stopCalled /\ ~engine.cancelled
    /\ engine' = [engine EXCEPT !.running = FALSE, !.stopCalled = TRUE,
                                !.queuedAtStop = queue,
                                !.stopReturned = (unfinished = 0)]
    /\ joinWaiters' = IF unfinished = 0 THEN joinWaiters
                      ELSE Append(joinWaiters, "stop")
    /\ UNCHANGED <<ready, queue, unfinished, getterWaits, feed, exec, pf,
                   broker, nextId, log>>

(* join() has returned: stop() returns. *)
StopReturns ==
    /\ StopWiring /\ HeadIs("stop", "")
    /\ engine' = [engine EXCEPT !.stopReturned = TRUE]
    /\ ready' = Tail(ready)
    /\ UNCHANGED <<queue, unfinished, getterWaits, joinWaiters, feed, exec,
                   pf, broker, nextId, log>>

(* bus_task.cancel() in main(): a run task suspended in get() is made      *)
(* runnable, and CancelledError is raised in it when it runs next.         *)
StopCancelRun ==
    /\ StopWiring /\ ~engine.cancelled /\ ~engine.stopCalled
    /\ engine.pc \in {"new", "loop"}
    /\ engine' = [engine EXCEPT !.cancelled = TRUE,
                                !.dispatchedAtCancel = Len(log.dispatched),
                                !.tasksAtCancel = engine.tasks]
    /\ ready' = IF getterWaits THEN Append(ready, BusTask) ELSE ready
    /\ getterWaits' = FALSE
    /\ UNCHANGED <<queue, unfinished, joinWaiters, feed, exec, pf, broker,
                   nextId, log>>

InitStop ==
    /\ ready = <<BusTask>>
    /\ queue = <<>>
    /\ unfinished = 0
    /\ getterWaits = FALSE
    /\ joinWaiters = <<>>
    /\ feed = [kind |-> "lifecycle", index |-> 0]
    /\ exec = ExInit
    /\ pf = PfInit
    /\ broker = BrInit
    /\ engine = BusInit
    /\ nextId = 1
    /\ log = LogInit

NextStop ==
    \/ StopEnvPublish
    \/ StopBusRun
    \/ StopHandlerYields
    \/ StopHandlerRuns
    \/ StopBusGathered
    \/ StopCall
    \/ StopReturns
    \/ StopCancelRun

SpecStop == InitStop /\ [][NextStop]_vars

(* Nothing is runnable and nothing more will be published. *)
StopAtRest == ready = <<>> /\ feed.index = StopEvents

(* C21: when stop() has been called and the run has come to rest, every    *)
(* event that was queued at the call has been dispatched, run() has left   *)
(* its loop and returned, and stop() has returned.                         *)
C21_StopDrainsQueueAndReturns ==
    (StopWiring /\ engine.stopCalled /\ StopAtRest) =>
      /\ \A i \in 1..Len(engine.queuedAtStop) :
            \E j \in 1..Len(log.dispatched) :
               log.dispatched[j] = engine.queuedAtStop[i]
      /\ engine.pc = "done"
      /\ engine.stopReturned

(* C22: once the run task is cancelled no further event is dispatched, and *)
(* run() has returned only when no handler task it created is left.        *)
C22_CancelStopsDispatchAndAwaitsHandlers ==
    (StopWiring /\ engine.cancelled) =>
      /\ Len(log.dispatched) = engine.dispatchedAtCancel
      /\ engine.pc = "done" =>
           /\ engine.tasks = 0
           /\ \A p \in 1..Len(ready) : ready[p].t # "handler"

C22_Witness ==
    /\ StopWiring /\ engine.cancelled /\ engine.pc = "done"
    /\ engine.tasksAtCancel > 0
    /\ engine.dispatchedAtCancel > 0
    /\ queue # <<>>
    /\ ready = <<>>

----------------------------------------------------------------------------
(* trader-v2: LiveDataFeed.start_feed and stop_feed                        *)
(* (src/trader-v2/components/data_feed.py).  The feed task suspends in the *)
(* sleep of _mock_realtime_data before each data point; while it sleeps    *)
(* another task may call stop_feed() or cancel the feed task, and reading  *)
(* a data point may raise.  `released` tells that the section of stop_feed *)
(* after its _running test (where the connection is closed) has run.       *)

LiveWiring == feed.kind = "live"

(* LiveDataFeed.__init__ *)
LiveFeedInit ==
    [kind |-> "live", running |-> FALSE, pc |-> "new", index |-> 0,
     released |-> FALSE, cause |-> ""]

(* stop_feed(): nothing when not running, else _running = False and the    *)
(* connection is released.                                                 *)
LiveStopFeed(f) ==
    IF ~f.running THEN f
    ELSE [f EXCEPT !.running = FALSE, !.released = TRUE]

(* start_feed leaves its try block: the finally block awaits stop_feed(). *)
LiveReturn(f, cause) ==
    [LiveStopFeed(f) EXCEPT !.pc = "returned", !.cause = cause]

(* start_feed up to the first sleep of the generator, or to its end when   *)
(* there is no data point.                                                 *)
LiveStart ==
    /\ LiveWiring /\ feed.pc = "new"
    /\ feed' = IF LiveBars > 0
               THEN [feed EXCEPT !.running = TRUE, !.pc = "sleep"]
               ELSE LiveReturn([feed EXCEPT !.running = FALSE], "exhausted")
    /\ UNCHANGED <<ready, queue, unfinished, getterWaits, joinWaiters, exec,
                   pf, broker, engine, nextId, log>>

(* The sleep ends: the generator yields a data point, start_feed tests     *)
(* _running, _process_raw_data publishes a MarketEvent when the point is a *)
(* bar, and the generator goes to its next sleep; when _running is false   *)
(* the loop is left, and after the last data point the generator sets      *)
(* _running = False and ends.                                              *)
LiveNext ==
    /\ LiveWiring /\ feed.pc = "sleep"
    /\ IF ~feed.running
       THEN /\ feed' = LiveReturn(feed, "stopped")
            /\ UNCHANGED <<queue, unfinished>>
       ELSE \E sym \in Symbols, bar \in BOOLEAN :
              /\ queue' = IF bar
                          THEN Append(queue, MarketEvent(sym, feed.index + 1,
                                                         1, 1, feed.index + 1))
                          ELSE queue
              /\ unfinished' = IF bar THEN unfinished + 1 ELSE unfinished
              /\ feed' = IF feed.index + 1 < LiveBars
                         THEN [feed EXCEPT !.index = @ + 1]
                         ELSE LiveReturn([feed EXCEPT !.index = @ + 1,
                                                      !.running = FALSE],
                                         "exhausted")
    /\ UNCHANGED <<ready, getterWaits, joinWaiters, exec, pf, broker, engine,
                   nextId, log>>

(* Reading the next data point raises: `except Exception`, then finally. *)
LiveError ==
    /\ LiveWiring /\ feed.pc = "sleep"
    /\ feed' = LiveReturn(feed, "error")
    /\ UNCHANGED <<ready, queue, unfinished, getterWaits, joinWaiters, exec,
                   pf, broker, engine, nextId, log>>

(* The feed task is cancelled in its sleep: `except CancelledError`, then  *)
(* finally.                                                                *)
LiveCancelled ==
    /\ LiveWiring /\ feed.pc = "sleep"
    /\ feed' = LiveReturn(feed, "cancelled")
    /\ UNCHANGED <<ready, queue, unfinished, getterWaits, joinWaiters, exec,
                   pf, broker, engine, nextId, log>>

(* Another task calls stop_feed() while the feed task sleeps. *)
LiveStopRequested ==
    /\ LiveWiring /\ feed.pc = "sleep" /\ feed.running
    /\ feed' = LiveStopFeed(feed)
    /\ UNCHANGED <<ready, queue, unfinished, getterWaits, joinWaiters, exec,
                   pf, broker, engine, nextId, log>>

InitLive ==
    /\ ready = <<>>
    /\ queue = <<>>
    /\ unfinished = 0
    /\ getterWaits = FALSE
    /\ joinWaiters = <<>>
    /\ feed = LiveFeedInit
    /\ exec = ExInit
    /\ pf = PfInit
    /\ broker = BrInit
    /\ engine = EngineInit("none")
    /\ nextId = 1
    /\ log = LogInit

NextLive ==
    \/ LiveStart
    \/ LiveNext
    \/ LiveError
    \/ LiveCancelled
    \/ LiveStopRequested

SpecLive == InitLive /\ [][NextLive]_vars

(* C23: whenever start_feed has returned, for whatever cause, the          *)
(* connection-release section of stop_feed has been executed.              *)
C23_ReturnedFeedHasReleased ==
    (LiveWiring /\ feed.pc = "returned") => feed.released

----------------------------------------------------------------------------
(* src/trader: the threaded EventEngine (event_engine.py), its dispatch    *)
(* thread and stop().  Other threads put events at any time; the thread    *)
(* that called start() calls stop(wait=True) once.  `engine` holds         *)
(* _active, the position of _run, the event being dispatched, and counts   *)
(* of what _run has done since stop() was called.                          *)

ThreadWiring == feed.kind = "threaded"

(* EventEngine.__init__ and start(). *)
ThreadEngineInit ==
    [mode |-> "thread", active |-> TRUE, pc |-> "check", cur |-> NoEvent,
     stopCalled |-> FALSE, stopReturned |-> FALSE,
     waitsAfterStop |-> 0, handledAfterStop |-> 0]

GetBlocks(q) == FALSE

(* queue.get(block=True, timeout=self._queue_timeout) on an empty queue    *)
(* raises queue.Empty when the timeout has passed.                         *)
GetTimesOut(q) == q = <<>>

(* EventEngine.put from any thread. *)
ThreadPut ==
    /\ ThreadWiring /\ feed.index < ThreadEvents
    /\ queue' = Append(queue, MarketEvent("A", feed.index + 1, 1, 1,
                                          feed.index + 1))
    /\ feed' = [feed EXCEPT !.index = @ + 1]
    /\ UNCHANGED <<ready, unfinished, getterWaits, joinWaiters, exec, pf,
                   broker, engine, nextId, log>>

(* _run: the test of `while self._active`. *)
ThreadCheck ==
    /\ ThreadWiring /\ engine.pc = "check"
    /\ engine' = [engine EXCEPT !.pc = IF engine.active THEN "get"
                                       ELSE "exited"]
    /\ UNCHANGED <<ready, queue, unfinished, getterWaits, joinWaiters, feed,
                   exec, pf, broker, nextId, log>>

(* _run: queue.get returns an event. *)
ThreadGet ==
    /\ ThreadWiring /\ engine.pc = "get" /\ queue # <<>>
    /\ engine' = [engine EXCEPT
                    !.pc = "dispatch", !.cur = Head(queue),
                    !.waitsAfterStop = IF engine.stopCalled THEN @ + 1 ELSE @]
    /\ queue' = Tail(queue)
    /\ UNCHANGED <<ready, unfinished, getterWaits, joinWaiters, feed, exec,
                   pf, broker, nextId, log>>

(* _run: queue.get raises queue.Empty, `continue`. *)
ThreadGetEmpty ==
    /\ ThreadWiring /\ engine.pc = "get" /\ GetTimesOut(queue)
    /\ engine' = [engine EXCEPT
                    !.pc = "check",
                    !.waitsAfterStop = IF engine.stopCalled THEN @ + 1 ELSE @]
    /\ UNCHANGED <<ready, queue, unfinished, getterWaits, joinWaiters, feed,
                   exec, pf, broker, nextId, log>>

(* _run: every handler of the event has been called and has returned. *)
ThreadDispatch ==
    /\ ThreadWiring /\ engine.pc = "dispatch"
    /\ engine' = [engine EXCEPT
                    !.pc = "check", !.cur = NoEvent,
                    !.handledAfterStop = IF engine.stopCalled THEN @ + 1
                                         ELSE @]
    /\ log' = [log EXCEPT !.dispatched = Append(@, engine.cur)]
    /\ UNCHANGED <<ready, queue, unfinished, getterWaits, joinWaiters, feed,
                   exec, pf, broker, nextId>>

(* stop(wait=True): _active = False, then self._thread.join(). *)
ThreadStop ==
    /\ ThreadWiring /\ engine.active /\ ~engine.stopCalled
    /\ engine' = [engine EXCEPT !.active = FALSE, !.stopCalled = TRUE]
    /\ UNCHANGED <<ready, queue, unfinished, getterWaits, joinWaiters, feed,
                   exec, pf, broker, nextId, log>>

(* The dispatch thread has ended: join() and stop() return. *)
ThreadJoined ==
    /\ ThreadWiring /\ engine.stopCalled /\ ~engine.stopReturned
    /\ engine.pc = "exited"
    /\ engine' = [engine EXCEPT !.stopReturned = TRUE]
    /\ UNCHANGED <<ready, queue, unfinished, getterWaits, joinWaiters, feed,
                   exec, pf, broker, nextId, log>>

InitThread ==
    /\ ready = <<>>
    /\ queue = <<>>
    /\ unfinished = 0
    /\ getterWaits = FALSE
    /\ joinWaiters = <<>>
    /\ feed = [kind |-> "threaded", index |-> 0]
    /\ exec = ExInit
    /\ pf = PfInit
    /\ broker = BrInit
    /\ engine = ThreadEngineInit
    /\ nextId = 1
    /\ log = LogInit

NextThread ==
    \/ ThreadPut
    \/ ThreadCheck
    \/ ThreadGet
    \/ ThreadGetEmpty
    \/ ThreadDispatch
    \/ ThreadStop
    \/ ThreadJoined

(* The dispatch thread and the thread in join() are scheduled again and    *)
(* again, every handler invocation terminates, and a timed get returns.    *)
SpecThread ==
    /\ InitThread /\ [][NextThread]_vars
    /\ WF_vars(ThreadCheck) /\ WF_vars(ThreadGet) /\ WF_vars(ThreadGetEmpty)
    /\ WF_vars(ThreadDispatch) /\ WF_vars(ThreadJoined)

(* C24: after stop() the dispatch thread completes at most one queue wait  *)
(* and at most one event, it starts no further wait, and stop(wait=True)   *)
(* returns.                                                                *)
C24_StopEndsThreadAfterBoundedWait ==
    /\ [](ThreadWiring /\ engine.stopCalled =>
            /\ engine.waitsAfterStop <= 1
            /\ engine.handledAfterStop <= 1)
    /\ ((ThreadWiring /\ engine.stopCalled)
          ~> (engine.pc = "exited" /\ engine.stopReturned))

C24_Witness ==
    /\ ThreadWiring /\ engine.stopReturned
    /\ engine.waitsAfterStop = 1
    /\ queue # <<>>

----------------------------------------------------------------------------
(* trader_v2: the same market data and strategy signals run twice through  *)
(* the broker wiring.  The first run draws the data points and the signals *)
(* and writes them down; the second run starts from a newly built broker   *)
(* and feed and is given what was written down.  Order ids are uuid4       *)
(* values in the source: the second run gets fresh ones.                   *)

ReplayWiring == BrokerWiring /\ "run" \in DOMAIN feed

ReplayCloses == {1, MaxPrice}

(* What the strategy does at a market event: nothing, LONG with a weight   *)
(* or FLAT (whose weight is not read).                                     *)
ReplaySignals ==
    {[dir |-> "", w |-> 0], [dir |-> "FLAT", w |-> 0]}
      \cup [dir : {"LONG"}, w : WideWeights]

(* What two runs are compared on: the NAV history, cash, the positions     *)
(* with their cost basis, and the pending orders without their ids.        *)
Outcome(b) ==
    [nav |-> b.nav, cash |-> b.cash, qty |-> b.qty, cb |-> b.cb,
     pending |-> [i \in 1..Len(b.pending) |->
                    [sym |-> b.pending[i].sym, dir |-> b.pending[i].dir,
                     qty |-> b.pending[i].qty]]]

(* What is kept of a run for the comparison: its outcome, and its pending  *)
(* orders as they are, ids included.                                       *)
FirstRun(b) == [outcome |-> Outcome(b), orders |-> b.pending]

(* The feed of a run, with the number of the run, the data points and      *)
(* signals of the first run and the outcome of the first run.              *)
ReplayFeedInit(run, bars, sigs, first) ==
    [kind |-> "sleep", index |-> 0, running |-> TRUE,
     isBacktesting |-> TRUE, waiting |-> FALSE, done |-> FALSE,
     lastTs |-> NoTs, latest |-> [s \in Symbols |-> NoPrice],
     limit |-> ReplayBars, weights |-> WideWeights, traced |-> FALSE,
     run |-> run, bars |-> bars, sigs |-> sigs, first |-> first]

(* CSVDataFeed.start_feed, one iteration, as BrFeedPublish; in the second  *)
(* run the data point is the one of the first run.                         *)
RpFeedPublish ==
    /\ ReplayWiring /\ HeadIs("feed", "")
    /\ feed.running /\ feed.index < feed.limit
    /\ \E sym \in BrokerSymbols, step \in {0, 1}, close \in ReplayCloses :
         LET ts == IF feed.index = 0 THEN 1 ELSE feed.lastTs + step
             ev == MarketEvent(sym, ts, NoPrice, close, feed.index + 1)
         IN  /\ feed.run = 1 + 1 => feed.bars[feed.index + 1] = ev
             /\ queue' = Append(queue, ev)
             /\ feed' = [feed EXCEPT
                           !.lastTs = ts, !.index = @ + 1,
                           !.latest[sym] = close,
                           !.bars = IF feed.run = 1 THEN Append(@, ev) ELSE @]
    /\ unfinished' = unfinished + 1
    /\ ready' = Append(PutWakes(Tail(ready), getterWaits), FeedTask)
    /\ getterWaits' = FALSE
    /\ UNCHANGED <<joinWaiters, exec, pf, broker, engine, nextId, log>>

(* The strategy's market handler, as BrStrategyOnMarket; in the second run *)
(* the signal is the one of the first run for this market event.           *)
RpStrategyOnMarket ==
    /\ ReplayWiring /\ HeadIs("handler", "br_strategy")
    /\ \E s \in ReplaySignals, sym \in BrokerSymbols :
         LET ev == Head(ready).ev IN
         /\ feed.run = 1 + 1 => feed.sigs[ev.cause] = s
         /\ Publish(IF s.dir = "" THEN <<>>
                    ELSE <<SignalEvent(sym, s.dir, s.w, ev.cause, ev.ts)>>,
                    Tail(ready))
         /\ feed' = [feed EXCEPT
                       !.sigs = IF feed.run = 1 THEN Append(@, s) ELSE @]
    /\ UNCHANGED <<joinWaiters, exec, pf, broker, engine, nextId, log>>

(* The first run is over and everything has been handled: the second run   *)
(* is built, with a new bus, feed and broker.                              *)
RpSecondRun ==
    /\ ReplayWiring /\ feed.run = 1
    /\ feed.done /\ ready = <<>> /\ queue = <<>>
    /\ feed' = ReplayFeedInit(1 + 1, feed.bars, feed.sigs, FirstRun(broker))
    /\ broker' = BrInit
    /\ ready' = <<FeedTask>>
    /\ getterWaits' = TRUE
    /\ UNCHANGED <<queue, unfinished, joinWaiters, exec, pf, engine, nextId,
                   log>>

InitReplay ==
    /\ ready = <<FeedTask>>
    /\ queue = <<>>
    /\ unfinished = 0
    /\ getterWaits = TRUE
    /\ joinWaiters = <<>>
    /\ feed = ReplayFeedInit(1, <<>>, <<>>, FirstRun(BrInit))
    /\ exec = ExInit
    /\ pf = PfInit
    /\ broker = BrInit
    /\ engine = EngineInit("none")
    /\ nextId = 1
    /\ log = LogInit

NextReplay ==
    \/ RpFeedPublish
    \/ BrFeedFinish
    \/ BrBusStep
    \/ RpStrategyOnMarket
    \/ BrokerOnSignal
    \/ BrokerOnMarketEvent
    \/ RpSecondRun

SpecReplay == InitReplay /\ [][NextReplay]_vars

(* The second run is over and everything has been handled. *)
ReplayOver ==
    /\ ReplayWiring /\ feed.run = 1 + 1
    /\ feed.done /\ ready = <<>> /\ queue = <<>>

----------------------------------------------------------------------------
(* src/trader: the two ways into a backtest, run_backtest (backtest.py)    *)
(* and Backtester (backtester/backtester.py), from the configuration to    *)
(* the engine and data source of the section above.                        *)

SetupWiring == feed.kind = "setup"

(* The configurations tried: initial_capital negative, zero or positive,   *)
(* symbols empty or not, and the required keys (with the 'class' entries)  *)
(* present or not.                                                         *)
SetupConfigs ==
    [capital : {0 - 1, 0, InitialCash},
     symbols : {<<>>, <<"A", "B">>},
     keys : BOOLEAN]

(* _validate_config_func: TRUE when it returns, FALSE when it raises.      *)
ValidateConfigFunc(cfg) ==
    /\ cfg.keys
    /\ cfg.capital > 0
    /\ cfg.symbols # <<>>

(* Backtester._validate_config: TRUE when it returns, FALSE when it        *)
(* raises.  Only the presence of the keys is tested.                       *)
BacktesterValidateConfig(cfg) == cfg.keys

(* The feed of a run whose components have been built and whose data       *)
(* source has been started, with the configuration it was built from.      *)
SetupStarted(f) ==
    [kind |-> "csv", index |-> 0, pc |-> "loop", final |-> FALSE,
     drained |-> 0, entry |-> f.entry, cfg |-> f.cfg]

(* run_backtest: validation, then EventEngine() (mode 'live'), the         *)
(* components, engine.start() and data_source.start().  When validation    *)
(* raises, the except clause records the error and nothing is built.       *)
SetupRunBacktest ==
    /\ SetupWiring /\ feed.entry = "run_backtest" /\ feed.pc = "new"
    /\ IF ValidateConfigFunc(feed.cfg)
       THEN /\ feed' = SetupStarted(feed)
            /\ engine' = [EngineInit("live") EXCEPT !.active = TRUE]
            /\ ready' = <<LoopTask, SourceTask>>
       ELSE /\ feed' = [feed EXCEPT !.pc = "raised"]
            /\ UNCHANGED <<engine, ready>>
    /\ UNCHANGED <<queue, unfinished, getterWaits, joinWaiters, exec, pf,
                   broker, nextId, log>>

(* Backtester(config).run(): __init__ validates, run sets the components   *)
(* up with EventEngine(mode='backtest'), starts the engine and the data    *)
(* source.                                                                 *)
SetupBacktester ==
    /\ SetupWiring /\ feed.entry = "Backtester" /\ feed.pc = "new"
    /\ IF BacktesterValidateConfig(feed.cfg)
       THEN /\ feed' = SetupStarted(feed)
            /\ engine' = [EngineInit("backtest") EXCEPT !.active = TRUE]
            /\ ready' = <<SourceTask>>
       ELSE /\ feed' = [feed EXCEPT !.pc = "raised"]
            /\ UNCHANGED <<engine, ready>>
    /\ UNCHANGED <<queue, unfinished, getterWaits, joinWaiters, exec, pf,
                   broker, nextId, log>>

InitSetup ==
    /\ \E entry \in {"run_backtest", "Backtester"}, cfg \in SetupConfigs :
         feed = [kind |-> "setup", pc |-> "new", entry |-> entry,
                 cfg |-> cfg]
    /\ ready = <<>>
    /\ queue = <<>>
    /\ unfinished = 0
    /\ getterWaits = FALSE
    /\ joinWaiters = <<>>
    /\ exec = ExInit
    /\ pf = PfInit
    /\ broker = BrInit
    /\ engine = EngineInit("none")
    /\ nextId = 1
    /\ log = LogInit

NextSetup ==
    \/ SetupRunBacktest
    \/ SetupBacktester
    \/ SourcePut
    \/ DrainStep
    \/ DrainReturn
    \/ SourceComplete
    \/ LiveLoopStep
    \/ LiveLoopWait
    \/ LiveProcess

SpecSetup == InitSetup /\ [][NextSetup]_vars

(* C26: in a run whose configuration has an initial_capital that is not    *)
(* positive or an empty symbols list, no event is ever put on the engine   *)
(* queue or dispatched to a handler.                                       *)
C26_InvalidConfigPutsNoEvent ==
    ("cfg" \in DOMAIN feed
       /\ (feed.cfg.capital <= 0 \/ feed.cfg.symbols = <<>>)) =>
      /\ engine.put = 0
      /\ queue = <<>>
      /\ log.published = <<>>
      /\ log.dispatched = <<>>

----------------------------------------------------------------------------
(* MomentumBroker.on_signal, claim by claim, on the history that the       *)
(* traced run of the broker wiring keeps of the last on_signal call.       *)

(* on_signal by itself: one call on a broker whose cash, position and      *)
(* pending orders are drawn from the states runs leave it in (cash below   *)
(* zero and short positions among them), with a latest price and a signal  *)
(* that are drawn as well.                                                 *)
OnSignalCash == {0 - 1, 0, 1 + 1, InitialCash}
OnSignalPrices == {NoPrice, 0, 1, MaxPrice}
OnSignalWeights == 0..WeightDen
OnSignalPending == {<<>>, <<OrderEvent(1, "A", "SELL", LotSize, 0, 0)>>}

InitOnSignal ==
    /\ \E q \in (0 - SignalQty)..SignalQty, c \in OnSignalCash,
          p \in OnSignalPrices, orders \in OnSignalPending,
          dir \in {"LONG", "SHORT", "FLAT"}, w \in OnSignalWeights :
         /\ broker = [BrInit EXCEPT
                        !.cash = c * MoneyScale,
                        !.qty["A"] = q,
                        !.cb["A"] = IF q = 0 THEN Rat(0, 1) ELSE Rat(E3, 1),
                        !.pending = orders]
         /\ feed = [SleepFeedInit(0, OnSignalWeights, TRUE) EXCEPT
                      !.latest["A"] = p, !.lastTs = 1, !.running = FALSE,
                      !.done = TRUE]
         /\ ready = <<Task("handler", "br_signal",
                           SignalEvent("A", dir, w, 1, 1))>>
    /\ queue = <<>>
    /\ unfinished = 0
    /\ getterWaits = TRUE
    /\ joinWaiters = <<>>
    /\ exec = ExInit
    /\ pf = PfInit
    /\ engine = EngineInit("none")
    /\ nextId = 1 + 1
    /\ log = LogInit

NextOnSignal == BrokerOnSignal

SpecOnSignal == InitOnSignal /\ [][NextOnSignal]_vars

(* The orders on_signal has added: what is pending after it and was not    *)
(* before it, without the ids.  The history also has the latest price and  *)
(* the total value on_signal read, and the answer of the risk check to the *)
(* order it built.                                                         *)
AddedOrders(s) ==
    [i \in 1..(Len(s.after.pending) - Len(s.before.pending)) |->
       LET o == s.after.pending[Len(s.before.pending) + i] IN
       [sym |-> o.sym, dir |-> o.dir, qty |-> o.qty]]

(* C27: for a FLAT signal on_signal has done nothing when the position of  *)
(* the symbol was 0; otherwise it has built one order for the absolute     *)
(* quantity of the position, SELL for a long and BUY for a short one, and  *)
(* that order, and no other, has become pending if it passed the risk      *)
(* check.                                                                  *)
C27_FlatClosesWholePosition ==
    BrokerWiring =>
      \A s \in SeqRange(log.signal) :
         s.sig.dir = "FLAT" =>
           LET held == s.before.qty[s.sig.sym]
               dir == IF held > 0 THEN "SELL" ELSE "BUY"
           IN  /\ SubSeq(s.after.pending, 1, Len(s.before.pending))
                    = s.before.pending
               /\ held = 0 => s.after = s.before /\ s.qty = 0
               /\ held # 0 =>
                    /\ s.dir = dir /\ s.qty = Abs(held)
                    /\ AddedOrders(s) =
                         IF s.risk
                         THEN <<[sym |-> s.sig.sym, dir |-> dir,
                                 qty |-> Abs(held)]>>
                         ELSE <<>>

(* A short position of more than one lot, closed by a BUY that the cash    *)
(* covers.                                                                 *)
C27_Witness ==
    /\ BrokerWiring
    /\ \E s \in SeqRange(log.signal) :
         /\ s.sig.dir = "FLAT"
         /\ s.before.qty[s.sig.sym] < 0 - LotSize
         /\ AddedOrders(s) = <<[sym |-> s.sig.sym, dir |-> "BUY",
                                qty |-> 0 - s.before.qty[s.sig.sym]]>>

(* The difference between the target quantity of a LONG / SHORT signal and *)
(* the position, as the fraction DeltaNum / DeltaDen: the target is the    *)
(* total value times the weight over the latest price, negative for SHORT. *)
DeltaDen(s) == WeightDen * s.latest * MoneyScale

DeltaNum(s) ==
    LET value == Max(0, s.value * s.sig.w) IN
    (IF s.sig.dir = "LONG" THEN value ELSE 0 - value)
      - s.before.qty[s.sig.sym] * DeltaDen(s)

(* on_signal has gone as far as computing the difference. *)
Sized(s) ==
    /\ s.sig.dir \in {"LONG", "SHORT"}
    /\ s.latest > 0
    /\ s.value > MoneyScale \div (E3 * E3)

(* C28: for a LONG or SHORT signal on_signal has created no order when the *)
(* difference between target and position was below one lot; otherwise the *)
(* order it has built has the difference rounded down to a multiple of the *)
(* lot size as quantity, at least one lot, and is a BUY for a positive and *)
(* a SELL for a negative difference; the order is pending if it passed the *)
(* risk check.                                                             *)
C28_OrderIsDeltaRoundedDownToLots ==
    BrokerWiring =>
      \A s \in SeqRange(log.signal) :
         Sized(s) =>
           LET lot == DeltaDen(s) * LotSize
               dir == IF DeltaNum(s) > 0 THEN "BUY" ELSE "SELL"
               qty == (Abs(DeltaNum(s)) \div lot) * LotSize
           IN  /\ SubSeq(s.after.pending, 1, Len(s.before.pending))
                    = s.before.pending
               /\ Abs(DeltaNum(s)) < lot => AddedOrders(s) = <<>>
               /\ Abs(DeltaNum(s)) >= lot =>
                    /\ s.dir = dir /\ s.qty = qty
                    /\ qty >= LotSize /\ qty % LotSize = 0
                    /\ AddedOrders(s) =
                         IF s.risk
                         THEN <<[sym |-> s.sig.sym, dir |-> dir,
                                 qty |-> qty]>>
                         ELSE <<>>

(* A difference of more than two lots that is not a whole number of lots,  *)
(* bought rounded down.                                                    *)
C28_Witness ==
    /\ BrokerWiring
    /\ \E s \in SeqRange(log.signal) :
         /\ Sized(s)
         /\ DeltaNum(s) > (1 + 1) * DeltaDen(s) * LotSize
         /\ DeltaNum(s) % (DeltaDen(s) * LotSize) # 0
         /\ Len(AddedOrders(s)) = 1
         /\ AddedOrders(s)[1].dir = "BUY"

----------------------------------------------------------------------------
(* MomentumBroker.on_market_event and get_total_portfolio_value            *)

(* C29: whatever on_market_event has settled, every position whose         *)
(* quantity is 0 has the cost basis 0.                                     *)
C29_FlatPositionHasNoCostBasis ==
    BrokerWiring =>
      \A s \in Symbols : broker.qty[s] = 0 => broker.cb[s] = Rat(0, 1)

(* A position that was opened and closed again by settlements: the         *)
(* quantity is back at 0 and the commissions have left a cash that is not  *)
(* the initial one.                                                        *)
C29_Witness ==
    /\ BrokerWiring
    /\ broker.qty["A"] = 0 /\ broker.cb["A"] = Rat(0, 1)
    /\ broker.cash # InitialCash * MoneyScale
    /\ Len(broker.nav) >= 1 + 1

(* What a position counts for: quantity times latest price, or quantity    *)
(* times cost basis (rounded down to the money unit) when the symbol has   *)
(* no positive latest price.                                               *)
PositionValue(b, s) ==
    IF feed.latest[s] # NoPrice /\ feed.latest[s] > 0
    THEN b.qty[s] * feed.latest[s] * MoneyScale
    ELSE (b.qty[s] * b.cb[s].n * E4) \div b.cb[s].d

RECURSIVE SumOfPositions(_, _)
SumOfPositions(b, syms) ==
    IF syms = {} THEN 0
    ELSE LET s == CHOOSE x \in syms : TRUE IN
         PositionValue(b, s) + SumOfPositions(b, syms \ {s})

(* C30: the value get_total_portfolio_value returns, as _record_nav stores *)
(* it, is cash plus, over the positions with a quantity other than 0, the  *)
(* quantity times the latest price of the symbol, or times the cost basis  *)
(* for a symbol that has no positive latest price.                         *)
C30_TotalValueIsCashPlusPositions ==
    [][(BrokerWiring /\ Len(broker'.nav) > Len(broker.nav)) =>
         broker'.nav[Len(broker'.nav)].value =
           broker'.cash
             + SumOfPositions(broker', {s \in Symbols : broker'.qty[s] # 0})
      ]_vars

(* A NAV entry stored while the symbol of a held position had the latest   *)
(* price 0: the position is counted at its cost basis.                     *)
C30_Witness ==
    /\ BrokerWiring
    /\ broker.nav # <<>>
    /\ broker.nav[Len(broker.nav)].ts = feed.lastTs
    /\ feed.latest["A"] = 0
    /\ broker.qty["A"] # 0 /\ broker.cb["A"] # Rat(0, 1)
    /\ broker.nav[Len(broker.nav)].value =
         broker.cash + PositionValue(broker, "A")
    /\ broker.nav[Len(broker.nav)].value # broker.cash

----------------------------------------------------------------------------
(* CSVDataFeed.start_feed on the EventBus: what is still to be done when   *)
(* the feed publishes.                                                     *)

(* C31: when CSVDataFeed has published the market event of a timestamp, no *)
(* event of an earlier timestamp or caused by one is queued, and no        *)
(* handler call for such an event is waiting to run.                       *)
C31_FeedPublishesAfterHandlersCompleted ==
    BrokerWiring =>
      \A e \in SeqRange(queue) \cup CausedCalls :
         e.srcTs = NoTs \/ e.srcTs >= feed.lastTs

----------------------------------------------------------------------------
(* trader_v2: MomentumStrategy (components/strategy.py) on the history     *)
(* CSVDataFeed.get_historical_prices gives it.  A row of the file is a     *)
(* symbol with its close; the rows are sorted by timestamp and the feed is *)
(* at the last row.  The portfolio may have opened a position for a LONG   *)
(* signal of the event before and closed one for a FLAT signal.            *)

MomentumWiring == feed.kind = "momentum"

MomentumCloses == {1, MaxPrice}

(* CSVDataFeed.get_historical_prices: the last `period` rows up to the     *)
(* current timestamp, whatever their symbols, latest first.                *)
GetHistoricalPrices(rows, period) ==
    LET n == Len(rows)
        k == IF period < n THEN period ELSE n
    IN  [i \in 1..k |-> rows[n - i + 1]]

(* history_df['symbol'].unique(): the symbols in order of appearance. *)
RECURSIVE UniqueSymbols(_, _)
UniqueSymbols(h, seen) ==
    IF h = <<>> THEN <<>>
    ELSE IF Head(h).sym \in seen THEN UniqueSymbols(Tail(h), seen)
    ELSE <<Head(h).sym>> \o UniqueSymbols(Tail(h), seen \cup {Head(h).sym})

RowsOf(h, s) == SelectSeq(h, LAMBDA r : r.sym = s)

(* momentum_dict: for each symbol with momentum_period + 1 rows in the     *)
(* history, the close of its first row minus the close of its last.        *)
RECURSIVE MomentumDict(_, _)
MomentumDict(h, syms) ==
    IF syms = <<>> THEN <<>>
    ELSE LET r == RowsOf(h, Head(syms)) IN
         (IF Len(r) >= MomentumPeriod + 1
          THEN <<[sym |-> Head(syms), m |-> r[1].close - r[Len(r)].close]>>
          ELSE <<>>) \o MomentumDict(h, Tail(syms))

(* sorted(..., reverse=True): by momentum, highest first, equal ones in    *)
(* the order they have in the dict.                                        *)
RECURSIVE SortedMomentum(_)
SortedMomentum(d) ==
    IF d = <<>> THEN <<>>
    ELSE LET i == CHOOSE i \in 1..Len(d) :
                    /\ \A j \in 1..Len(d) : d[j].m <= d[i].m
                    /\ \A j \in 1..(i - 1) : d[j].m < d[i].m
         IN  <<d[i]>> \o SortedMomentum(SubSeq(d, 1, i - 1)
                                         \o SubSeq(d, i + 1, Len(d)))

(* top_3_symbols *)
Top3Symbols(h) ==
    LET sorted == SortedMomentum(MomentumDict(h, UniqueSymbols(h, {}))) IN
    {sorted[i].sym : i \in 1..(IF Len(sorted) < TopSymbols THEN Len(sorted)
                               ELSE TopSymbols)}

(* The loop over the symbols of the history: LONG for a symbol of the top  *)
(* 3 without a position, FLAT for another symbol with a position.          *)
RECURSIVE MomentumSignals(_, _, _, _)
MomentumSignals(syms, top, held, n) ==
    IF syms = <<>> THEN <<>>
    ELSE LET s == Head(syms) IN
         (IF s \in top /\ s \notin held
          THEN <<SignalEvent(s, "LONG", 1, n, NoTs)>>
          ELSE IF s \notin top /\ s \in held
          THEN <<SignalEvent(s, "FLAT", 0, n, NoTs)>>
          ELSE <<>>) \o MomentumSignals(Tail(syms), top, held, n)

(* MomentumStrategy.on_market_data *)
OnMarketData(rows, held) ==
    LET h == GetHistoricalPrices(rows, MomentumPeriod + 1) IN
    IF Len(h) < MomentumPeriod + 1 THEN <<>>
    ELSE MomentumSignals(UniqueSymbols(h, {}), Top3Symbols(h), held,
                         Len(rows))

(* The symbols of the signals of a direction published last. *)
SignalledSymbols(dir) ==
    {e.sym : e \in {x \in SeqRange(feed.published) : x.dir = dir}}

(* The feed is at the next row of the file and the strategy handles the    *)
(* market event of the row.                                                *)
StrategyOnMarketData ==
    /\ MomentumWiring /\ Len(feed.rows) < MomentumRows
    /\ \E sym \in Symbols, close \in MomentumCloses, held \in SUBSET Symbols :
         LET rows == Append(feed.rows, [sym |-> sym, close |-> close]) IN
         /\ held \subseteq feed.held \cup SignalledSymbols("LONG")
         /\ feed.held \ SignalledSymbols("FLAT") \subseteq held
         /\ feed' = [feed EXCEPT !.rows = rows, !.held = held,
                                 !.published = OnMarketData(rows, held)]
    /\ UNCHANGED <<ready, queue, unfinished, getterWaits, joinWaiters, exec,
                   pf, broker, engine, nextId, log>>

InitMomentum ==
    /\ feed = [kind |-> "momentum", rows |-> <<>>, held |-> {},
               published |-> <<>>]
    /\ ready = <<>>
    /\ queue = <<>>
    /\ unfinished = 0
    /\ getterWaits = TRUE
    /\ joinWaiters = <<>>
    /\ exec = ExInit
    /\ pf = PfInit
    /\ broker = BrInit
    /\ engine = EngineInit("none")
    /\ nextId = 1
    /\ log = LogInit

NextMomentum == StrategyOnMarketData

SpecMomentum == InitMomentum /\ [][NextMomentum]_vars

(* The symbols the strategy has just ranked. *)
Ranked == Top3Symbols(GetHistoricalPrices(feed.rows, MomentumPeriod + 1))

(* C32: at a market event at which the strategy has computed a momentum,   *)
(* it has published a LONG signal with the fixed weight for exactly the    *)
(* symbols of the top 3 that have no position, a FLAT signal for exactly   *)
(* the symbols outside the top 3 that have a position, one signal for each *)
(* and no other.                                                           *)
C32_LongForTop3FlatForTheRest ==
    (MomentumWiring /\ Len(feed.rows) > MomentumPeriod /\ Ranked # {}) =>
      /\ SignalledSymbols("LONG") = Ranked \ feed.held
      /\ SignalledSymbols("FLAT") = feed.held \ Ranked
      /\ \A e \in SeqRange(feed.published) :
           /\ e.dir \in {"LONG", "FLAT"}
           /\ e.dir = "LONG" => e.w = 1
      /\ Len(feed.published)
           = Cardinality(SignalledSymbols("LONG"))
               + Cardinality(SignalledSymbols("FLAT"))

----------------------------------------------------------------------------
(* trader-v2: the cash BasePortfolio reserves for pending BUY orders       *)

(* C33: reserved_cash is the sum of the estimates reserved for the BUY     *)
(* orders in pending_orders; stated for the case the sum is empty:         *)
(* whenever no BUY order is pending, reserved_cash is 0.                   *)
C33_NothingReservedWithoutPendingBuy ==
    (BusWiring /\ feed.pair = "split") =>
      ((\A o \in pf.pending : o.dir # "BUY") => pf.reserved = 0)

----------------------------------------------------------------------------
(* src/trader: Backtester.run (backtester.py) on the threaded EventEngine  *)
(* (event_engine.py).  The thread that calls run() activates the strategy, *)
(* puts the market events of the data stream one after another without     *)
(* waiting, then waits for an empty queue, deactivates the strategy and    *)
(* stops the engine.  The dispatch thread (ThreadCheck, ThreadGet,         *)
(* ThreadGetEmpty, RunDispatch) runs beside it.  `feed` holds the position *)
(* of run() and the strategy object, `exec` the _pending_orders of         *)
(* BacktestExecutionHandler, `pf` the cash and positions of                *)
(* BasicPortfolioManager.                                                  *)

RunWiring == ThreadWiring /\ "main" \in DOMAIN feed

RunOpens == {1, MaxPrice}

(* Backtester._set_defaults: slippage_per_trade and commission_rate of the *)
(* execution handler default to 0.0.                                       *)
RunSlippage == 0
RunCommission == 0

(* IStrategy.__init__: `self._active = True`. *)
StrategyInit == [active |-> TRUE, starts |-> 0, stops |-> 0, seen |-> 0]

(* IStrategy.activate: on_start runs only if the strategy was inactive. *)
StrategyActivate(s) ==
    IF ~s.active THEN [s EXCEPT !.active = TRUE, !.starts = @ + 1] ELSE s

(* IStrategy.deactivate: on_stop runs only if the strategy was active. *)
StrategyDeactivate(s) ==
    IF s.active THEN [s EXCEPT !.active = FALSE, !.stops = @ + 1] ELSE s

(* BacktestExecutionHandler._handle_market_data: the price of a fill is    *)
(* the event's open price moved by the slippage, against the order.        *)
RunFillPrice(open, dir) ==
    IF dir = "BUY" THEN open + open * RunSlippage
    ELSE open - open * RunSlippage

(* _handle_market_data: one FillEvent for each pending order of the        *)
(* event's symbol, in the order they were stored.                          *)
RECURSIVE RunFills(_, _)
RunFills(orders, ev) ==
    IF orders = <<>> THEN <<>>
    ELSE LET o == Head(orders)
             p == RunFillPrice(ev.open, o.dir) IN
         <<FillEvent(o, p, o.qty * p * RunCommission, ev.ts, ev.cause)>>
           \o RunFills(Tail(orders), ev)

(* BasicPortfolioManager._handle_fill: cash and position. *)
RunHandleFill(p, ev) ==
    [p EXCEPT
       !.cash = IF ev.dir = "BUY"
                THEN @ - (ev.qty * ev.price + ev.commission)
                ELSE @ + (ev.qty * ev.price - ev.commission),
       !.qty[ev.sym] = IF ev.dir = "BUY" THEN @ + ev.qty ELSE @ - ev.qty]

(* What the strategy's on_market_data may put through buy() / sell(): an   *)
(* order for the event's symbol, or nothing.  handle_event returns at once *)
(* when the strategy is not active.                                        *)
RunStrategyOrders(s, ev) ==
    IF ev.type = "MARKET" /\ s.active
    THEN {<<>>} \cup
         {<<OrderEvent(nextId, ev.sym, d, 1, ev.cause, ev.ts)>> :
            d \in {"BUY", "SELL"}}
    ELSE {<<>>}

(* run(), step 3: self._strategy_instance.activate(). *)
RunActivate ==
    /\ RunWiring /\ feed.main = "activate"
    /\ feed' = [feed EXCEPT !.main = "start_event",
                            !.strat = StrategyActivate(@)]
    /\ UNCHANGED <<ready, queue, unfinished, getterWaits, joinWaiters, exec,
                   pf, broker, engine, nextId, log>>

(* run(), step 4: data_source.start(), then put SystemEvent BACKTEST_START. *)
RunPutStart ==
    /\ RunWiring /\ feed.main = "start_event"
    /\ queue' = Append(queue, SystemEvent(0))
    /\ feed' = [feed EXCEPT !.main = "stream"]
    /\ UNCHANGED <<ready, unfinished, getterWaits, joinWaiters, exec, pf,
                   broker, engine, nextId, log>>

(* run(): `for market_event in data_stream: self._engine.put(market_event)`,*)
(* one iteration.                                                          *)
RunPutMarket ==
    /\ RunWiring /\ feed.main = "stream" /\ feed.index < RunBars
    /\ \E sym \in Symbols, open \in RunOpens :
         LET ev == MarketEvent(sym, feed.index + 1, open, 1, feed.index + 1) IN
         /\ queue' = Append(queue, ev)
         /\ log' = [log EXCEPT !.bars = Append(@, ev)]
    /\ feed' = [feed EXCEPT !.index = @ + 1]
    /\ UNCHANGED <<ready, unfinished, getterWaits, joinWaiters, exec, pf,
                   broker, engine, nextId>>

(* run(): the stream is exhausted, data_source.stop(). *)
RunStreamEnd ==
    /\ RunWiring /\ feed.main = "stream" /\ feed.index = RunBars
    /\ feed' = [feed EXCEPT !.main = "wait"]
    /\ UNCHANGED <<ready, queue, unfinished, getterWaits, joinWaiters, exec,
                   pf, broker, engine, nextId, log>>

(* run(), step 5: `while self._engine.qsize() > 0: time.sleep(0.2)` ends,  *)
(* then put SystemEvent BACKTEST_END.                                      *)
RunQueueEmpty ==
    /\ RunWiring /\ feed.main = "wait" /\ queue = <<>>
    /\ queue' = Append(queue, SystemEvent(feed.index))
    /\ feed' = [feed EXCEPT !.main = "deactivate"]
    /\ UNCHANGED <<ready, unfinished, getterWaits, joinWaiters, exec, pf,
                   broker, engine, nextId, log>>

(* run(), step 6: self._strategy_instance.deactivate(). *)
RunDeactivate ==
    /\ RunWiring /\ feed.main = "deactivate"
    /\ feed' = [feed EXCEPT !.main = "stop",
                            !.strat = StrategyDeactivate(@)]
    /\ UNCHANGED <<ready, queue, unfinished, getterWaits, joinWaiters, exec,
                   pf, broker, engine, nextId, log>>

(* run(), step 7: self._engine.stop(wait=True) sets _active = False and    *)
(* joins the dispatch thread.                                              *)
RunStop ==
    /\ RunWiring /\ feed.main = "stop"
    /\ engine' = [engine EXCEPT !.active = FALSE, !.stopCalled = TRUE]
    /\ feed' = [feed EXCEPT !.main = "join"]
    /\ UNCHANGED <<ready, queue, unfinished, getterWaits, joinWaiters, exec,
                   pf, broker, nextId, log>>

RunJoined ==
    /\ RunWiring /\ feed.main = "join" /\ engine.pc = "exited"
    /\ engine' = [engine EXCEPT !.stopReturned = TRUE]
    /\ feed' = [feed EXCEPT !.main = "done"]
    /\ UNCHANGED <<ready, queue, unfinished, getterWaits, joinWaiters, exec,
                   pf, broker, nextId, log>>

(* _run, the body of one iteration after queue.get: the handlers of the    *)
(* event's type in registration order (BasicPortfolioManager.on_event,     *)
(* BasicDataHandler.on_event, BacktestExecutionHandler.on_event), then the *)
(* general handler IStrategy.handle_event.  Each put appends to the queue, *)
(* behind whatever the thread in run() has put by then.                    *)
RunDispatch ==
    /\ RunWiring /\ engine.pc = "dispatch"
    /\ LET ev == engine.cur
           update == IF ev.type \in {"MARKET", "FILL"}
                     THEN <<PortfolioUpdateEvent(ev.ts, ev.cause)>> ELSE <<>>
           fills == IF ev.type = "MARKET"
                    THEN RunFills(exec.pending[ev.sym], ev) ELSE <<>> IN
       \E order \in RunStrategyOrders(feed.strat, ev) :
          /\ queue' = queue \o update \o fills \o order
          /\ pf' = IF ev.type = "FILL" THEN RunHandleFill(pf, ev) ELSE pf
          /\ exec' = CASE ev.type = "MARKET" ->
                            [exec EXCEPT !.pending[ev.sym] = <<>>]
                       [] ev.type = "ORDER" ->
                            [exec EXCEPT !.pending[ev.sym] = Append(@, ev)]
                       [] OTHER -> exec
          /\ feed' = IF ev.type = "MARKET" /\ feed.strat.active
                     THEN [feed EXCEPT !.strat.seen = @ + 1] ELSE feed
          /\ nextId' = nextId + Len(order)
          /\ log' = [log EXCEPT !.dispatched = Append(@, ev),
                                !.fills = @ \o fills,
                                !.orders = @ \o order]
    /\ engine' = [engine EXCEPT
                    !.pc = "check", !.cur = NoEvent,
                    !.handledAfterStop = IF engine.stopCalled THEN @ + 1
                                         ELSE @]
    /\ UNCHANGED <<ready, unfinished, getterWaits, joinWaiters, broker>>

(* After Backtester._setup_components and self._engine.start(). *)
InitRun ==
    /\ ready = <<>>
    /\ queue = <<>>
    /\ unfinished = 0
    /\ getterWaits = FALSE
    /\ joinWaiters = <<>>
    /\ feed = [kind |-> "threaded", index |-> 0, main |-> "activate",
               strat |-> StrategyInit]
    /\ exec = [pending |-> [s \in Symbols |-> <<>>]]
    /\ pf = [cash |-> InitialCash, qty |-> [s \in Symbols |-> 0]]
    /\ broker = BrInit
    /\ engine = ThreadEngineInit
    /\ nextId = 1
    /\ log = LogInit

NextRun ==
    \/ RunActivate
    \/ RunPutStart
    \/ RunPutMarket
    \/ RunStreamEnd
    \/ RunQueueEmpty
    \/ RunDeactivate
    \/ RunStop
    \/ RunJoined
    \/ ThreadCheck
    \/ ThreadGet
    \/ ThreadGetEmpty
    \/ RunDispatch

SpecRun == InitRun /\ [][NextRun]_vars

(* The market events put after position k that are for symbol s. *)
LaterBarsOf(k, s) ==
    {j \in (k + 1)..Len(log.bars) : log.bars[j].sym = s}

(* C34: a fill of an order the strategy placed while handling bar k of a   *)
(* symbol is made by the next bar of that symbol, at that bar's open price *)
(* moved by the slippage.                                                  *)
C34_OrderFilledAtNextBarOfSymbol ==
    RunWiring =>
      \A i \in 1..Len(log.fills) :
         LET f == log.fills[i] IN
         /\ \A j \in LaterBarsOf(f.srcTs, f.sym) : f.cause <= j
         /\ f.price = RunFillPrice(log.bars[f.cause].open, f.dir)

(* C35: once activate() has returned in run(), on_start has run exactly    *)
(* once, and no MarketEvent reaches the strategy before that.              *)
C35_OnStartOnceBeforeMarketData ==
    RunWiring =>
      /\ feed.strat.starts <= 1
      /\ (feed.main # "activate" => feed.strat.starts = 1)
      /\ (feed.strat.seen > 0 => feed.strat.starts = 1)

----------------------------------------------------------------------------
(* src/trader/backtester/execution.py: BacktestExecution alone.  Its       *)
(* on_event is called with OrderEvents of any order type, with or without  *)
(* a limit price, and with MarketEvents; the FillEvents it puts go to the  *)
(* engine's queue.  `exec.pending` is _pending_orders, a dict from symbol  *)
(* to the list of orders stored for it.                                    *)

HandleWiring == feed.kind = "handle"

OrderTypes == {"MKT", "LMT", "STP"}
LimitPrices == {NoPrice, 1, MaxPrice}     \* limit_price, None included

(* An OrderEvent with its order_type and limit_price. *)
TypedOrder(id, sym, dir, otype, limit) ==
    OrderEvent(id, sym, dir, 1, 0, NoTs) @@ [otype |-> otype, limit |-> limit]

(* handle_market_data, the body of the loop for one order: TRUE when a     *)
(* FillEvent is put for it.  commission_rate and slippage_per_trade are    *)
(* 0.0, the defaults of __init__, so the adjusted price is the open price. *)
HandleFillsOrder(o, ev) ==
    /\ o.otype \in {"MKT", "LMT"}
    /\ o.dir \in {"BUY", "SELL"}
    /\ ~(o.otype = "LMT" /\ o.limit # NoPrice
           /\ o.dir = "BUY" /\ ev.open > o.limit)
    /\ ~(o.otype = "LMT" /\ o.limit # NoPrice
           /\ o.dir = "SELL" /\ ev.open < o.limit)

RECURSIVE HandleFills(_, _)
HandleFills(orders, ev) ==
    IF orders = <<>> THEN <<>>
    ELSE (IF HandleFillsOrder(Head(orders), ev)
          THEN <<FillEvent(Head(orders), ev.open, 0, ev.ts, ev.cause)>>
          ELSE <<>>) \o HandleFills(Tail(orders), ev)

(* handle_order: the order is appended to the list of its symbol. *)
HandleOrder ==
    /\ HandleWiring /\ nextId <= ExecOrders
    /\ \E sym \in Symbols, dir \in {"BUY", "SELL"}, otype \in OrderTypes,
          limit \in LimitPrices :
         LET o == TypedOrder(nextId, sym, dir, otype, limit) IN
         /\ (otype # "LMT" => limit = NoPrice)
         /\ exec' = [exec EXCEPT !.pending[sym] = Append(@, o)]
         /\ log' = [log EXCEPT !.orders = Append(@, o)]
    /\ nextId' = nextId + 1
    /\ UNCHANGED <<ready, queue, unfinished, getterWaits, joinWaiters, feed,
                   pf, broker, engine>>

(* handle_market_data: the list of the event's symbol is popped, and for   *)
(* each of its orders a FillEvent is put or the order is skipped.          *)
HandleMarketData ==
    /\ HandleWiring /\ feed.index < ExecBars
    /\ \E sym \in Symbols, open \in {1, MaxPrice} :
         LET ev == MarketEvent(sym, feed.index + 1, open, open,
                               feed.index + 1)
             fills == HandleFills(exec.pending[sym], ev) IN
         /\ exec' = [exec EXCEPT !.pending[sym] = <<>>]
         /\ queue' = queue \o fills
         /\ log' = [log EXCEPT !.bars = Append(@, ev), !.fills = @ \o fills]
    /\ feed' = [feed EXCEPT !.index = @ + 1]
    /\ UNCHANGED <<ready, unfinished, getterWaits, joinWaiters, pf, broker,
                   engine, nextId>>

InitHandle ==
    /\ ready = <<>>
    /\ queue = <<>>
    /\ unfinished = 0
    /\ getterWaits = FALSE
    /\ joinWaiters = <<>>
    /\ feed = [kind |-> "handle", index |-> 0]
    /\ exec = [pending |-> [s \in Symbols |-> <<>>]]
    /\ pf = PfInit
    /\ broker = BrInit
    /\ engine = EngineInit("backtest")
    /\ nextId = 1
    /\ log = LogInit

NextHandle ==
    \/ HandleOrder
    \/ HandleMarketData

SpecHandle == InitHandle /\ [][NextHandle]_vars

FillsOf(o) == {i \in 1..Len(log.fills) : log.fills[i].id = o.id}

(* C36: an order passed to handle_order is still pending or has produced   *)
(* exactly one FillEvent, never both and never neither.                    *)
C36_OrderPendingOrFilledOnce ==
    HandleWiring =>
      \A i \in 1..Len(log.orders) :
         LET o == log.orders[i]
             pending == o \in SeqRange(exec.pending[o.sym]) IN
         /\ pending => FillsOf(o) = {}
         /\ ~pending => Cardinality(FillsOf(o)) = 1

----------------------------------------------------------------------------
(* The broker wiring with a MomentumBroker built with lot_size = WideLot,  *)
(* so that a multiple of the lot size is not just any integer.             *)

InitLots ==
    /\ ready = <<FeedTask>>
    /\ queue = <<>>
    /\ unfinished = 0
    /\ getterWaits = TRUE
    /\ joinWaiters = <<>>
    /\ feed = SleepFeedInit(SignalBars, WideWeights, TRUE)
    /\ exec = ExInit
    /\ pf = PfInit
    /\ broker = [BrInit EXCEPT !.lot = WideLot]
    /\ engine = EngineInit("none")
    /\ nextId = 1
    /\ log = LogInit

SpecLots == InitLots /\ [][NextBroker]_vars

(* C37: every pending order quantity and every position quantity of the    *)
(* MomentumBroker is an integer multiple of its lot size.                  *)
C37_QuantitiesAreLotMultiples ==
    BrokerWiring =>
      /\ \A o \in SeqRange(broker.pending) : o.qty % broker.lot = 0
      /\ \A s \in Symbols : Abs(broker.qty[s]) % broker.lot = 0

(* A position of at least one lot of two shares or more is held while an   *)
(* order is pending, and the last signal asked for a difference that is    *)
(* not a whole number of lots.                                             *)
C37_Witness ==
    /\ BrokerWiring /\ broker.lot > 1
    /\ \E s \in Symbols : broker.qty[s] >= broker.lot
    /\ broker.pending # <<>>
    /\ \E s \in SeqRange(log.signal) :
         /\ Sized(s) /\ s.qty >= broker.lot
         /\ DeltaNum(s) % (DeltaDen(s) * broker.lot) # 0

----------------------------------------------------------------------------
(* The engine of src/trader/base in backtest mode with the component graph *)
(* strategy, BacktestExecution and a portfolio manager that emits          *)
(* PortfolioUpdateEvents (BasicPortfolioManager): CSVDataSource puts one   *)
(* MarketEvent and calls run_sync_cycle_async.                             *)

InitCycle ==
    /\ ready = <<SourceTask>>
    /\ queue = <<>>
    /\ unfinished = 0
    /\ getterWaits = FALSE
    /\ joinWaiters = <<>>
    /\ feed = [kind |-> "csv", index |-> 0, pc |-> "loop", final |-> FALSE,
               drained |-> 0]
    /\ exec = ExInit
    /\ pf = PfInit
    /\ broker = BrInit
    /\ engine = [EngineInit("backtest") EXCEPT !.active = TRUE,
                                               !.updates = TRUE]
    /\ nextId = 1
    /\ log = LogInit

NextCycle ==
    \/ SourcePut
    \/ DrainStep
    \/ DrainReturn
    \/ SourceComplete

(* The generator task is the only task; it is never suspended for ever     *)
(* inside run_sync_cycle_async, and every handler returns.                 *)
SpecCycle ==
    /\ InitCycle /\ [][NextCycle]_vars
    /\ WF_vars(DrainStep) /\ WF_vars(DrainReturn)

(* C38: a call of run_sync_cycle_async handles the MarketEvent, its        *)
(* update, the order the strategy placed, and a fill and an update for     *)
(* each order that was pending, and nothing more; it returns with the      *)
(* queue empty.                                                            *)
C38_SyncCycleTerminates ==
    /\ [](EngineWiring /\ feed.pc = "drain" =>
            feed.drained <= 1 + 1 + 1 + (1 + 1) * feed.index)
    /\ ((EngineWiring /\ feed.pc = "drain")
          ~> (feed.pc # "drain" /\ queue = <<>>))

(* A call has returned after handling a MarketEvent, the fill of a pending *)
(* order, the order of the strategy and the two updates.                   *)
C38_Witness ==
    /\ EngineWiring /\ engine.updates
    /\ feed.pc = "loop" /\ queue = <<>>
    /\ feed.drained >= 5
    /\ engine.handled = engine.put

============================================================================
